---- MODULE Spec2Model ----
(***************************************************************************)
(* Verification model of the audio-to-lighting pipeline                    *)
(* (kbox13/embedSys-finalProj, cpp/ess_stream).                            *)
(*                                                                         *)
(* The program is a set of components that share no state except through   *)
(* the ring and the stop flag, so each component gets its own              *)
(* specification over the module's variables:                              *)
(*   SpecRing  capture callback -> Ring -> feeder, with the stop flag      *)
(*   SpecLight LightingEngine (forecast filter, sent-map)                  *)
(*   SpecLog   GateLoggerSink x 5 and the logger's shared frame counter    *)
(*   SpecStop  main()'s shutdown sequence and the graph worker thread      *)
(*   SpecPred  InstrumentPredictor (warm-up, forecasts)                    *)
(*   SpecGate  HitGateOnset                                                *)
(*   SpecQueue the embedded device's event queue and its two tasks         *)
(* A specification leaves the other components' variables at their idle    *)
(* values.                                                                 *)
(***************************************************************************)
EXTENDS Integers, Sequences, FiniteSets, TLC

VARIABLES
  \* ---- Ring (streaming_pipe.cpp, struct Ring) and the threads around it
  buf,          \* Ring::buf, index 0..cap-1 -> sample
  head,         \* Ring::head (write index)
  tail,         \* Ring::tail (read index)
  g_running,    \* static std::atomic<bool> g_running
  cb,           \* locals of the capture callback (paCallback + Ring::push)
  fd,           \* locals of the feeder thread (feeder lambda + Ring::pop)
  fifo,         \* history: samples stored by push and not yet consumed by pop
  accepted,     \* history: samples stored by push since the start, in order
  injected,     \* history: samples handed to RingBufferInput::add, in order
  popped,       \* history: samples delivered by successful pops, in order
  nextSample,   \* history: number of samples the driver has delivered so far
  \* ---- LightingEngine (lighting_engine.cpp)
  leCfg,        \* parameters read by LightingEngine::configure
  le,           \* _currentTimeSec, _frameCount, _sentEvents, _cleanupCounter
  leIn,         \* the input token of the last process() call
  leOut,        \* outTokens[0] of the last process() call
  leEmitted,    \* history: every command put on the output, in order
  leSteps,      \* history: number of process() steps taken in this run
  \* ---- HitPredictionLogger and the five GateLoggerSinks
  lg,           \* _log_file.is_open(), _shared_frame_counter
  gateTok,      \* the gate value each sink finds on its input for this frame
  sinkRan,      \* instrument indices whose sink has consumed this frame's token
  logRecs,      \* the "hit" records written to the log file
  logFrame,     \* history: number of the audio frame the sinks are working on
  logBase,      \* history: _shared_frame_counter when that frame began
  \* ---- main()'s shutdown and the threads it waits for
  mn,           \* main(): position, polls of the wait loop, networkFinished
  feeder,       \* the feeder thread: "running" or "exited"
  shouldStop,   \* the flag set by src->shouldStop(true)
  net,          \* networkThread: state, tokens waiting in src, token in hand
  torn,         \* what main() has destroyed so far
  \* ---- InstrumentPredictor
  prCfg,        \* parameters read by InstrumentPredictor::configure
  pr,           \* _frameCount, _lastEmissionTime, _zmqInitialized, _instruments
  prOut,        \* allPredictions of the last process() call, or NoEmission
  prCount,      \* history: forecast hits produced so far, per instrument
  prSteps,      \* history: number of process() calls in this run
  \* ---- HitGateOnset
  gCfg,         \* parameters read by HitGateOnset::configure
  gt,           \* _framesSeen, _refCount, _detectionEnabled, histories, ...
  gOuts,        \* history: outBuf[0] of every process() call, in order
  gIns,         \* history: inBuf[0] of every process() call, in order
  gAbove,       \* history: "above" was computed and true on every frame so far
  \* MQTTPublisher
  mq,           \* _mqttConnected, _timeInitialized, _startUnixTime, ...
  mqIn,         \* history: commands received by process(), in order
  mqAtt,        \* history: event ids handed to async_client::publish, in order
  mqPub,        \* history: payloads the client accepted, in order
  mqErr,        \* history: event ids of std::cerr publish-error lines, in order
  \* InstrumentSum
  mk,           \* _nyquist, _lobeRolloff, _numBands, _weightsReady, _weights
  mkOut,        \* outTokens[0] of the last process() call
  \* ---- Embedded device: the event queue and its two tasks
  eventList,        \* ScheduledEvent eventList[], the filled slots
  eventCount,       \* size_t eventCount
  eventQueueMutex,  \* holder of eventQueueMutex: "free", "mqtt" or "sched"
  mt,               \* MQTT task: position in insertEventSorted, its event
  sc,               \* scheduler task: position, now, nextEvent, timerAlarmTime;
                    \* obs: where the MQTT task was at the latest queue read
  evHist            \* history: serials handed out, rejections, exec/remove log

ringData ==
  <<buf, head, tail, cb, fd, fifo, accepted, injected, popped, nextSample>>
ringVars == <<ringData, g_running>>
lightVars == <<leCfg, le, leIn, leOut, leEmitted, leSteps>>
logVars == <<lg, gateTok, sinkRan, logRecs, logFrame, logBase>>
stopVars == <<mn, feeder, shouldStop, net, torn>>
predVars == <<prCfg, pr, prOut, prCount, prSteps>>
gateVars == <<gCfg, gt, gOuts, gIns, gAbove>>
mqttVars == <<mq, mqIn, mqAtt, mqPub, mqErr>>
maskVars == <<mk, mkOut>>
queueVars == <<eventList, eventCount, eventQueueMutex, mt, sc, evHist>>

vars ==
  <<ringVars, lightVars, logVars, stopVars, predVars, gateVars, mqttVars,
    maskVars, queueVars>>

\* What a component's step leaves alone: the other components' variables.
RingOnly ==
  UNCHANGED <<lightVars, logVars, stopVars, predVars, gateVars, mqttVars,
              maskVars,
              queueVars>>
LightOnly ==
  UNCHANGED <<ringVars, logVars, stopVars, predVars, gateVars, mqttVars,
              maskVars,
              queueVars>>
LogOnly ==
  UNCHANGED <<ringVars, lightVars, stopVars, predVars, gateVars, mqttVars,
              maskVars,
              queueVars>>
StopOnly ==
  UNCHANGED <<ringData, lightVars, logVars, predVars, gateVars, mqttVars,
              maskVars,
              queueVars>>
PredOnly ==
  UNCHANGED <<ringVars, lightVars, logVars, stopVars, gateVars, mqttVars,
              maskVars,
              queueVars>>
GateOnly ==
  UNCHANGED <<ringVars, lightVars, logVars, stopVars, predVars, mqttVars,
              maskVars,
              queueVars>>
MqttOnly ==
  UNCHANGED <<ringVars, lightVars, logVars, stopVars, predVars, gateVars,
              maskVars,
              queueVars>>
MaskOnly ==
  UNCHANGED <<ringVars, lightVars, logVars, stopVars, predVars, gateVars,
              mqttVars,
              queueVars>>
QueueOnly ==
  UNCHANGED <<ringVars, lightVars, logVars, stopVars, predVars, gateVars,
              mqttVars, maskVars>>

Min(a, b) == IF a < b THEN a ELSE b
Max(a, b) == IF a > b THEN a ELSE b

(***************************************************************************)
(* Ring, capture callback, feeder                                          *)
(***************************************************************************)

\* Model sizes.  The program builds Ring(44100 * 5) and pops hopSize = 256.
RingCap == 3
HopSize == 2
MaxBlock == 2        \* largest frameCount the driver hands to one callback
MaxSamples == 5      \* samples the driver delivers in one run

\* "Always process first 10 frames" (feeder).
AlwaysProcessFrames == 10

\* A sample is its sequence number, positive when audible and negative when
\* silent (|x| far below the feeder's 0.001 RMS threshold).
Loud(s) == s > 0

\* size_t free = (t + cap - h - 1) % cap;
PushFreeOneMore(h, t) == ((t + RingCap - h - 1) % RingCap) + 1
PushFree(h, t) == (t + RingCap - h - 1) % RingCap

\* if (free == 0) break;
PushFullNever(free) == FALSE
PushFull(free) == free = 0

\* size_t chunk = min(to, cap - idx), with to = min(free, n - written)
PushChunkNoWrap(free, n, written, idx) == Min(free, n - written)
PushChunk(free, n, written, idx) == Min(Min(free, n - written), RingCap - idx)

\* size_t available = (h + cap - t) % cap;
PopAvailableOffByOne(h, t) == ((h + RingCap - t) % RingCap) + 1
PopAvailable(h, t) == (h + RingCap - t) % RingCap

\* the k-th sample (1-based) of the callback's input block
InSample(c, k) == IF c.loud THEN c.base + k ELSE -(c.base + k)

\* size_t pushed = ring->push(in, frameCount);
\* (void)pushed; // best-effort; drop if ring is full
\* What the callback keeps of push's result: no counter and no log line.
paCallbackRecord(pushed, frameCount) == [counted |-> 0, logged |-> FALSE]

CbIdle == [pc |-> "idle", n |-> 0, base |-> 0, loud |-> TRUE, written |-> 0,
           h |-> 0, free |-> 0, iters |-> 0, ret |-> "none",
           afterStop |-> FALSE, isNull |-> FALSE,
           record |-> [counted |-> 0, logged |-> FALSE]]

\* std::vector<float> chunk(hopSize); int framesProcessed = 0;
FdStart == [pc |-> "check", t |-> 0, chunk |-> [k \in 1..HopSize |-> 0],
            popRet |-> "none", framesProcessed |-> 0, pollsAfterStop |-> 0]

RingStart ==
  /\ buf = [i \in 0..(RingCap - 1) |-> 0]
  /\ head = 0
  /\ tail = 0
  /\ g_running = TRUE
  /\ cb = CbIdle
  /\ fd = FdStart
  /\ fifo = <<>>
  /\ accepted = <<>>
  /\ injected = <<>>
  /\ popped = <<>>
  /\ nextSample = 0

\* The driver invokes paCallback(input, frameCount).  A null input returns
\* paContinue at once; otherwise Ring::push starts with written = 0.
CallbackBegin ==
  /\ cb.pc = "idle"
  /\ \E n \in 1..MaxBlock, loud \in BOOLEAN, isNull \in BOOLEAN :
       /\ nextSample + n <= MaxSamples
       /\ IF isNull
            THEN /\ cb' = [CbIdle EXCEPT !.pc = "returned", !.ret = "continue",
                                         !.isNull = TRUE,
                                         !.afterStop = ~g_running]
                 /\ UNCHANGED nextSample
            ELSE /\ cb' = [CbIdle EXCEPT !.pc = "load", !.n = n,
                                         !.base = nextSample, !.loud = loud,
                                         !.afterStop = ~g_running]
                 /\ nextSample' = nextSample + n
  /\ UNCHANGED <<buf, head, tail, g_running, fd, fifo, accepted, injected, popped>>
  /\ RingOnly

\* One pass of push's loop up to the break: load head and tail, compute free.
PushLoad ==
  /\ cb.pc = "load"
  /\ LET free == PushFree(head, tail) IN
       cb' = [cb EXCEPT !.h = head, !.free = free, !.iters = @ + 1,
                        !.pc = IF PushFull(free) THEN "ret" ELSE "copy"]
  /\ UNCHANGED <<buf, head, tail, g_running, fd, fifo, accepted, injected, popped, nextSample>>
  /\ RingOnly

\* memcpy of the chunk, head.store, written += chunk, loop test.
PushCopy ==
  /\ cb.pc = "copy"
  /\ LET idx == cb.h % RingCap
         chunk == PushChunk(cb.free, cb.n, cb.written, idx)
         w == cb.written + chunk
     IN /\ buf' = [i \in 0..(RingCap - 1) |->
                     IF i >= idx /\ i < idx + chunk
                       THEN InSample(cb, cb.written + (i - idx) + 1)
                       ELSE buf[i]]
        /\ head' = (cb.h + chunk) % RingCap
        /\ fifo' = fifo \o [k \in 1..chunk |-> InSample(cb, cb.written + k)]
        /\ accepted' = accepted
                          \o [k \in 1..chunk |-> InSample(cb, cb.written + k)]
        /\ cb' = [cb EXCEPT !.written = w,
                            !.pc = IF w < cb.n THEN "load" ELSE "ret"]
  /\ UNCHANGED <<tail, g_running, fd, injected, popped, nextSample>>
  /\ RingOnly

\* return g_running ? paContinue : paComplete;
CallbackReturn ==
  /\ cb.pc = "ret"
  /\ cb' = [cb EXCEPT !.pc = "returned",
                      !.record = paCallbackRecord(cb.written, cb.n),
                      !.ret = IF g_running THEN "continue" ELSE "complete"]
  /\ UNCHANGED <<buf, head, tail, g_running, fd, fifo, accepted, injected, popped, nextSample>>
  /\ RingOnly

\* The driver takes the callback's result; the next invocation may follow.
CallbackDone ==
  /\ cb.pc = "returned"
  /\ cb' = CbIdle
  /\ UNCHANGED <<buf, head, tail, g_running, fd, fifo, accepted, injected, popped, nextSample>>
  /\ RingOnly

\* while (g_running)
FeederCheck ==
  /\ fd.pc = "check"
  /\ fd' = [fd EXCEPT !.pc = IF g_running THEN "pop" ELSE "exit"]
  /\ UNCHANGED <<buf, head, tail, g_running, cb, fifo, accepted, injected, popped, nextSample>>
  /\ RingOnly

\* Ring::pop(chunk, hopSize) up to the availability test.  On failure the
\* feeder counts, sleeps 1 ms and continues with the loop test.
PopLoad ==
  /\ fd.pc = "pop"
  /\ LET available == PopAvailable(head, tail)
         ok == ~(available < HopSize)
     IN fd' = [fd EXCEPT !.t = tail,
                         !.popRet = IF ok THEN "none" ELSE "false",
                         !.pollsAfterStop = IF g_running THEN @ ELSE @ + 1,
                         !.pc = IF ok THEN "copy" ELSE "check"]
  /\ UNCHANGED <<buf, head, tail, g_running, cb, fifo, accepted, injected, popped, nextSample>>
  /\ RingOnly

\* The two memcpy calls and tail.store of a successful pop.
PopCopy ==
  /\ fd.pc = "copy"
  /\ fd' = [fd EXCEPT !.chunk = [k \in 1..HopSize |->
                                   buf[(fd.t + k - 1) % RingCap]],
                      !.popRet = "true",
                      !.pc = "inject"]
  /\ tail' = (fd.t + HopSize) % RingCap
  /\ fifo' = SubSeq(fifo, HopSize + 1, Len(fifo))
  /\ popped' = popped \o [k \in 1..HopSize |-> buf[(fd.t + k - 1) % RingCap]]
  /\ UNCHANGED <<buf, head, g_running, cb, accepted, injected, nextSample>>
  /\ RingOnly

\* framesProcessed++, the RMS test and RingBufferInput::add.
\* framesProcessed is only compared with 10, so it saturates there.
FeederInject ==
  /\ fd.pc = "inject"
  /\ LET fp == Min(fd.framesProcessed + 1, AlwaysProcessFrames)
         audible == \E k \in 1..Len(fd.chunk) : Loud(fd.chunk[k])
     IN /\ fd' = [fd EXCEPT !.framesProcessed = fp, !.pc = "check"]
        /\ injected' = IF audible \/ fp < AlwaysProcessFrames
                         THEN injected \o fd.chunk
                         ELSE injected
  /\ UNCHANGED <<buf, head, tail, g_running, cb, fifo, accepted, popped,
                  nextSample>>
  /\ RingOnly

\* The first WarmBlocks rounds of a quiet start, taken as one step: the driver
\* delivers HopSize silent samples to an empty ring, the feeder pops them and,
\* framesProcessed being below 10, injects them.  The samples of the run are
\* numbered below -MaxSamples and leave nextSample alone.
WarmBlocks == AlwaysProcessFrames - 2
WarmSample(k) == -(MaxSamples + k)
WarmTotal == WarmBlocks * HopSize
FeederWarmRun ==
  /\ g_running
  /\ cb = CbIdle
  /\ fd = FdStart
  /\ head = 0 /\ tail = 0 /\ nextSample = 0
  /\ HopSize < RingCap
  /\ LET all == [k \in 1..WarmTotal |-> WarmSample(k)]
         last(i) == CHOOSE k \in 1..WarmTotal :
                      /\ (k - 1) % RingCap = i
                      /\ \A j \in 1..WarmTotal : (j - 1) % RingCap = i => j <= k
     IN /\ buf' = [i \in 0..(RingCap - 1) |->
                     IF \E k \in 1..WarmTotal : (k - 1) % RingCap = i
                       THEN WarmSample(last(i)) ELSE buf[i]]
        /\ head' = WarmTotal % RingCap
        /\ tail' = WarmTotal % RingCap
        /\ fd' = [fd EXCEPT !.t = (WarmTotal - HopSize) % RingCap,
                            !.chunk = SubSeq(all, WarmTotal - HopSize + 1,
                                             WarmTotal),
                            !.popRet = "true",
                            !.framesProcessed = WarmBlocks]
        /\ injected' = injected \o all
        /\ popped' = popped \o all
        /\ accepted' = accepted \o all
  /\ UNCHANGED <<g_running, cb, fifo, nextSample>>
  /\ RingOnly

\* main() after the timeout, or the SIGINT handler: g_running = false.
SetStop ==
  /\ g_running
  /\ g_running' = FALSE
  /\ UNCHANGED <<buf, head, tail, cb, fd, fifo, accepted, injected, popped, nextSample>>
  /\ RingOnly

RingStep ==
  \/ CallbackBegin
  \/ PushLoad
  \/ PushCopy
  \/ CallbackReturn
  \/ CallbackDone
  \/ FeederCheck
  \/ PopLoad
  \/ PopCopy
  \/ FeederInject
  \/ FeederWarmRun
  \/ SetStop


\* ---- Claims on the ring

\* Source samples of the running callback that lie in the ring's memory.
CbSamplesInBuf ==
  {k \in 1..cb.n : \E i \in 0..(RingCap - 1) : buf[i] = InSample(cb, k)}

\* C1: a pop of n samples goes ahead only if at least n samples are stored
\* when it is called; a failing pop leaves the output block and tail as they
\* were; a succeeding pop delivers exactly the n oldest samples and advances
\* tail by n.
C1_PopExact ==
  [][ /\ (fd.pc = "pop" /\ fd'.pc = "copy") => Len(fifo) >= HopSize
      /\ (fd.pc = "pop" /\ fd'.pc = "check") =>
            /\ fd'.popRet = "false"
            /\ fd'.chunk = fd.chunk /\ tail' = tail /\ fifo' = fifo
      /\ (fd.pc = "copy" /\ fd'.pc = "inject") =>
            /\ fd'.popRet = "true"
            /\ Len(fd'.chunk) = HopSize
            /\ fd'.chunk = SubSeq(fifo, 1, HopSize)
            /\ tail' = (tail + HopSize) % RingCap
            /\ Len(fifo') = Len(fifo) - HopSize ]_vars

\* C1 witness: a pop has succeeded on a block that wraps around the end of
\* the buffer, after an earlier failed or successful pop.
C1_Witness ==
  /\ fd.pc = "inject"
  /\ fd.popRet = "true"
  /\ fd.t + HopSize > RingCap
  /\ Len(fd.chunk) = HopSize

\* C2: push never waits for the consumer.  Every step of a running push is
\* enabled whatever the consumer does, the loop makes at most n + 1 passes,
\* and the value returned is the number of the call's samples that reached the
\* ring's memory, between 0 and n; the rest of the block is not in the ring.
C2_PushNeverBlocks ==
  /\ cb.iters <= cb.n + 1
  /\ (cb.pc \in {"load", "copy", "ret"}) =>
        ENABLED (PushLoad \/ PushCopy \/ CallbackReturn)
  /\ (cb.pc \in {"ret", "returned"} /\ ~cb.isNull) =>
        /\ cb.written \in 0..cb.n
        /\ CbSamplesInBuf = 1..cb.written

\* C2 witness: a push on a full ring returned after storing only part of its
\* block.
C2_Witness ==
  /\ cb.pc = "returned"
  /\ ~cb.isNull
  /\ cb.written > 0
  /\ cb.written < cb.n

\* C7 (as stated): an invocation of the capture callback that starts after the
\* stop flag was set returns "complete", and the feeder does not poll the ring
\* again once it has seen the flag (at most the one pop already under way).
C7_StopHonoured ==
  /\ (cb.pc = "returned" /\ cb.afterStop) => cb.ret = "complete"
  /\ fd.pollsAfterStop <= 1
  /\ (fd.pc = "exit") => ~g_running

\* C15 (as stated): when the ring is full and push accepts fewer samples than
\* the callback offered, the callback counts the drop and logs the overflow,
\* and capture goes on (the callback returns "continue" while running).
C15_DropCounted ==
  (cb.pc = "returned" /\ ~cb.isNull /\ cb.written < cb.n) =>
     /\ cb.record.counted >= 1
     /\ cb.record.logged
     /\ (~cb.afterStop /\ g_running => cb.ret = "continue")

\* C16 (as stated): the ring holds five seconds of audio.  The program builds
\* the ring with capacity argument 5 * fs (RingCap here), so once RingCap
\* samples were offered to the empty ring with no pop, RingCap are stored.
C16_HoldsFiveSeconds ==
  (popped = <<>> /\ fd.pc # "copy" /\ cb.pc = "idle" /\ nextSample >= RingCap) =>
     Len(fifo) >= RingCap

\* C17 (as stated): every block the feeder pops is injected exactly once, in
\* pop order: whenever the feeder is not between a pop and its injection the
\* injected samples are the popped samples.
C17_EveryPoppedBlockInjected ==
  (fd.pc # "inject") => injected = popped

\* C23: whatever the interleaving of the producer's pushes and the
\* consumer's pops, the samples delivered by successful pops, in order, are
\* the first samples accepted by push, in order: none lost, repeated,
\* reordered or overwritten before it was read.
C23_PoppedIsPrefixOfAccepted ==
  /\ Len(popped) <= Len(accepted)
  /\ popped = SubSeq(accepted, 1, Len(popped))

\* C23 witness: a block has been popped between two passes of one push, and
\* it is not the first block popped.
C23_Witness ==
  /\ Len(popped) >= 2 * HopSize
  /\ fd.pc = "inject"
  /\ fd.chunk[1] > 0
  /\ cb.pc = "copy"
  /\ cb.written > 0

\* C24: head and tail stay in [0, cap), the ring holds no sample exactly when
\* head = tail, and it never holds more than cap - 1 samples.
C24_IndicesAndOccupancy ==
  LET stored == Len(accepted) - Len(popped)
  IN /\ head \in 0..(RingCap - 1)
     /\ tail \in 0..(RingCap - 1)
     /\ (stored = 0) <=> (head = tail)
     /\ stored <= RingCap - 1
     /\ stored = (head + RingCap - tail) % RingCap

\* C24 witness: the ring is full with head wrapped around below tail.
C24_Witness ==
  /\ Len(accepted) - Len(popped) = RingCap - 1
  /\ head < tail
  /\ Len(popped) > 0

(***************************************************************************)
(* LightingEngine: forecast filter and sent-map                            *)
(*                                                                         *)
(* Times are integers counting ticks of 5 ms (0.05 s = 10, 0.1 s = 20,     *)
(* 2.0 s = 400); confidences are integers counting hundredths.             *)
(***************************************************************************)

MaxSteps == 4        \* process() steps in one run (an idle run is one step)

\* static const int CLEANUP_INTERVAL = 50;
CLEANUP_INTERVAL == 50

\* declareParameters: confidence_threshold [0,1] (0.3), max_latency_sec
\* [0.1,10] (2.0), min_latency_sec [0.01,1] (0.05), duplicate_window_sec
\* [0.01,1] (0.1).  The defaults, and the lowest latency and window values.
LeConfigs ==
  { [confidenceThreshold |-> 30, minLatencySec |-> 10, maxLatencySec |-> 400,
     duplicateWindowSec |-> 20],
    [confidenceThreshold |-> 30, minLatencySec |-> 2, maxLatencySec |-> 20,
     duplicateWindowSec |-> 2] }

\* Time between two tokens that carry predictions (50 ms).
TokenSteps == {10}

\* Forecast hits offered to the filter, as (lead time, confidence).
LeHits == { <<4, 90>>, <<9, 90>>, <<10, 90>>, <<20, 90>>, <<600, 90>>,
            <<20, 20>>, <<20, 30>> }

MkHit(now, lc) == [tPredSec |-> now + lc[1], confidence |-> lc[2]]

\* PredictionOutput tokens with timestamp now: the empty one, one without
\* hits, one hit of kick or snare, the same kick hit twice, and a kick
\* prediction with a hit too early, one in the window and one too late.
LeTokens(now) ==
  { [timestampSec |-> now, predictions |-> <<>>],
    [timestampSec |-> now,
     predictions |-> << [instrument |-> "kick", hits |-> <<>>] >>] }
  \cup { [timestampSec |-> now,
          predictions |-> << [instrument |-> "kick",
                              hits |-> << MkHit(now, lc) >>] >>] : lc \in LeHits }
  \cup { [timestampSec |-> now,
          predictions |-> << [instrument |-> "snare",
                              hits |-> << MkHit(now, lc) >>] >>] :
            lc \in { <<20, 90>>, <<10, 90>> } }
  \cup { [timestampSec |-> now,
          predictions |-> << [instrument |-> "kick",
                              hits |-> << MkHit(now, <<20, 90>>),
                                          MkHit(now, <<20, 90>>) >>] >>],
         [timestampSec |-> now,
          predictions |-> << [instrument |-> "kick",
                              hits |-> << MkHit(now, <<4, 90>>),
                                          MkHit(now, <<20, 90>>),
                                          MkHit(now, <<600, 90>>) >>] >>] }

\* std::round(tPredSec * 100.0): hundredths of a second, halves away from zero.
\* One hundredth is two ticks.
RoundHundredths(t) == IF t >= 0 THEN (t + 1) \div 2 ELSE -((1 - t) \div 2)

\* generateEventId: "<instrument>_<rounded time, 2 decimals>"
generateEventId(cmd) == <<cmd.instrument, RoundHundredths(cmd.tPredSec)>>

\* mapInstrumentToColor
mapInstrumentToColor(instrument) ==
  IF instrument = "kick" THEN <<1, 0, 0>>
  ELSE IF instrument = "snare" THEN <<0, 1, 0>>
  ELSE <<0, 0, 1>>

\* if (cmd.confidence < _confidenceThreshold) return false;
ConfidenceTooLow(cfg, cmd) == cmd.confidence < cfg.confidenceThreshold

\* if (latency < _minLatencySec || latency > _maxLatencySec) return false;
LatencyOutsideMaxOnly(cfg, latency) == latency > cfg.maxLatencySec
LatencyOutside(cfg, latency) ==
  latency < cfg.minLatencySec \/ latency > cfg.maxLatencySec

\* the duplicate test of shouldSendCommand against _sentEvents
IsDuplicateNever(cfg, sent, cmd, eventId) == FALSE
IsDuplicate(cfg, sent, cmd, eventId) ==
  /\ eventId \in DOMAIN sent
  /\ cmd.tPredSec - sent[eventId].tPredSec < cfg.duplicateWindowSec

shouldSendCommand(cfg, st, cmd, eventId) ==
  IF ConfidenceTooLow(cfg, cmd) THEN FALSE
  ELSE IF LatencyOutside(cfg, cmd.tPredSec - st.currentTimeSec) THEN FALSE
  ELSE IF IsDuplicate(cfg, st.sentEvents, cmd, eventId) THEN FALSE
  ELSE TRUE

\* cleanupOldEvents: erase entries with currentTime - tPredSec > window
cleanupOldEventsAll(cfg, sent, currentTime) == << >>
cleanupOldEventsNone(cfg, sent, currentTime) == sent
cleanupOldEvents(cfg, sent, currentTime) ==
  LET keep == {id \in DOMAIN sent :
                 ~(currentTime - sent[id].tPredSec > cfg.duplicateWindowSec)}
  IN [id \in keep |-> sent[id]]

\* The body of the inner loop of processPredictionOutput for one hit.
\* acc = [st, commands].
ProcessHit(cfg, acc, instrument, hit) ==
  LET rgb == mapInstrumentToColor(instrument)
      cmd0 == [instrument |-> instrument, tPredSec |-> hit.tPredSec,
               confidence |-> hit.confidence,
               r |-> rgb[1], g |-> rgb[2], b |-> rgb[3]]
      eventId == generateEventId(cmd0)
      cmd == [cmd0 EXCEPT !.r = rgb[1]] @@ [eventId |-> eventId]
  IN IF ~shouldSendCommand(cfg, acc.st, cmd, eventId)
       THEN acc
       ELSE [st |-> [acc.st EXCEPT !.sentEvents =
                       [id \in DOMAIN @ \cup {eventId} |->
                          IF id = eventId
                            THEN [eventId |-> eventId, tPredSec |-> cmd.tPredSec]
                            ELSE @[id]]],
             commands |-> IF cmd.instrument = "kick"
                            THEN Append(acc.commands, cmd)
                            ELSE acc.commands]

RECURSIVE ProcessHits(_, _, _, _)
ProcessHits(cfg, acc, instrument, hits) ==
  IF hits = <<>> THEN acc
  ELSE ProcessHits(cfg, ProcessHit(cfg, acc, instrument, Head(hits)),
                   instrument, Tail(hits))

RECURSIVE ProcessPredictions(_, _, _)
ProcessPredictions(cfg, acc, preds) ==
  IF preds = <<>> THEN acc
  ELSE ProcessPredictions(cfg,
         ProcessHits(cfg, acc, Head(preds).instrument, Head(preds).hits),
         Tail(preds))

\* processPredictionOutput: timestamp, batched cleanup, then the hits.
processPredictionOutput(cfg, st, output) ==
  LET counted == st.cleanupCounter + 1
      st1 == [st EXCEPT
                !.currentTimeSec = output.timestampSec,
                !.sentEvents = IF counted >= CLEANUP_INTERVAL
                                 THEN cleanupOldEvents(cfg, @, output.timestampSec)
                                 ELSE @,
                !.cleanupCounter = IF counted >= CLEANUP_INTERVAL
                                     THEN 0 ELSE counted]
  IN ProcessPredictions(cfg, [st |-> st1, commands |-> <<>>],
                        output.predictions)

\* LightingEngine::process on one token: [st, commands]
LeProcessToken(cfg, st, token) ==
  IF token.predictions = <<>>
    THEN [st |-> [st EXCEPT !.frameCount = @ + 1], commands |-> <<>>]
    ELSE LET r == processPredictionOutput(cfg, st, token)
         IN [st |-> [r.st EXCEPT !.frameCount = @ + 1],
             commands |-> r.commands]

\* LightingEngine::reset
LeReset == [currentTimeSec |-> 0, frameCount |-> 0, sentEvents |-> << >>,
            cleanupCounter |-> 0]

NoToken == [timestampSec |-> 0, predictions |-> <<>>]

LightStart ==
  /\ le = LeReset
  /\ leIn = NoToken
  /\ leOut = <<>>
  /\ leEmitted = <<>>
  /\ leSteps = 0

LightIdle == leCfg = CHOOSE c \in LeConfigs : c.duplicateWindowSec = 20

\* One process() call on the next token of the stream.
LightProcess ==
  /\ leSteps < MaxSteps
  /\ \E d \in TokenSteps :
       \E token \in LeTokens(le.currentTimeSec + d) :
         LET r == LeProcessToken(leCfg, le, token) IN
           /\ le' = r.st
           /\ leIn' = token
           /\ leOut' = r.commands
           /\ leEmitted' = leEmitted \o r.commands
  /\ leSteps' = leSteps + 1
  /\ UNCHANGED leCfg
  /\ LightOnly

\* A stretch of CLEANUP_INTERVAL - 2 consecutive process() calls on tokens
\* that carry predictions without hits.
RECURSIVE LeIdleRun(_, _, _, _)
LeIdleRun(cfg, st, d, n) ==
  IF n = 0 THEN st
  ELSE LET next == LeProcessToken(cfg, st,
                     [timestampSec |-> st.currentTimeSec + d,
                      predictions |-> << [instrument |-> "kick",
                                          hits |-> <<>>] >>]).st
       IN IF next.frameCount = st.frameCount + 1
            THEN LeIdleRun(cfg, next, d, n - 1)
            ELSE st

LightIdleRun ==
  /\ leSteps < MaxSteps
  /\ le.frameCount < CLEANUP_INTERVAL
  /\ \E d \in TokenSteps :
       /\ le' = LeIdleRun(leCfg, le, d, CLEANUP_INTERVAL - 2)
       /\ leIn' = [timestampSec |-> le'.currentTimeSec,
                   predictions |-> << [instrument |-> "kick", hits |-> <<>>] >>]
  /\ leOut' = <<>>
  /\ leSteps' = leSteps + 1
  /\ UNCHANGED <<leCfg, leEmitted>>
  /\ LightOnly

\* reset(): the stream starts again at time 0, so the history of the commands
\* of the stream that ended is dropped with the sent-map.
LightReset ==
  /\ leSteps > 0
  /\ le' = LeReset
  /\ leIn' = NoToken
  /\ leOut' = <<>>
  /\ leEmitted' = <<>>
  /\ leSteps' = 0
  /\ UNCHANGED leCfg
  /\ LightOnly

LightStep == LightProcess \/ LightIdleRun \/ LightReset

\* ---- Claims on the lighting filter

\* The hits of the last input token, with their instrument.
LeInHits ==
  UNION { { [instrument |-> leIn.predictions[p].instrument,
             tPredSec |-> leIn.predictions[p].hits[h].tPredSec,
             confidence |-> leIn.predictions[p].hits[h].confidence] :
            h \in DOMAIN leIn.predictions[p].hits } :
          p \in DOMAIN leIn.predictions }

\* C3: any two commands the filter has emitted with the same event_id have
\* tPred values at least duplicate_window_sec apart; with a window of 0.1 s
\* (20 ticks) no event_id is ever emitted twice.
C3_DuplicateWindow ==
  /\ \A i, j \in DOMAIN leEmitted :
        (i < j /\ leEmitted[i].eventId = leEmitted[j].eventId) =>
           \/ leEmitted[j].tPredSec - leEmitted[i].tPredSec
                 >= leCfg.duplicateWindowSec
           \/ leEmitted[i].tPredSec - leEmitted[j].tPredSec
                 >= leCfg.duplicateWindowSec
  /\ (leCfg.duplicateWindowSec = 20) =>
        \A i, j \in DOMAIN leEmitted :
           (leEmitted[i].eventId = leEmitted[j].eventId) => i = j

\* C3 witness: with the 0.1 s window, a kick forecast that passes the
\* confidence and latency tests arrives 50 ms (10 ticks, one token) after the
\* command with its event_id and tPred was emitted, and nothing is emitted for
\* it: that event_id has exactly one command.
C3_Witness ==
  /\ leCfg.duplicateWindowSec = 20
  /\ leOut = <<>>
  /\ \E hit \in LeInHits :
       /\ hit.instrument = "kick"
       /\ hit.confidence >= leCfg.confidenceThreshold
       /\ hit.tPredSec - le.currentTimeSec = 10
       /\ Cardinality({ i \in DOMAIN leEmitted :
                          /\ leEmitted[i].eventId = generateEventId(hit)
                          /\ leEmitted[i].tPredSec = hit.tPredSec }) = 1

\* C4: every command put out by a process() call has confidence at least
\* confidence_threshold and a lead time tPred - t_now inside
\* [min_latency_sec, max_latency_sec], t_now being the token's timestamp.
\* With min 0.05 s and max 2.0 s (10 and 400 ticks) a forecast with lead
\* 0.02 s or 3.0 s gives no command, and a kick forecast with lead 0.10 s and
\* sufficient confidence has its command on the output.
C4_ConfidenceAndLatency ==
  /\ \A k \in DOMAIN leOut :
        /\ leOut[k].confidence >= leCfg.confidenceThreshold
        /\ leOut[k].tPredSec - leIn.timestampSec >= leCfg.minLatencySec
        /\ leOut[k].tPredSec - leIn.timestampSec <= leCfg.maxLatencySec
        /\ \E hit \in LeInHits :
              /\ hit.tPredSec = leOut[k].tPredSec
              /\ hit.confidence = leOut[k].confidence
              /\ hit.instrument = leOut[k].instrument
  /\ (leCfg.minLatencySec = 10 /\ leCfg.maxLatencySec = 400) =>
        \A hit \in LeInHits :
           /\ (hit.tPredSec - leIn.timestampSec \in {4, 600}) =>
                 \A k \in DOMAIN leOut : leOut[k].tPredSec # hit.tPredSec
           /\ ( /\ hit.tPredSec - leIn.timestampSec = 20
                /\ hit.instrument = "kick"
                /\ hit.confidence >= leCfg.confidenceThreshold ) =>
                 \E i \in DOMAIN leEmitted :
                    leEmitted[i].eventId = generateEventId(hit)

\* C4 witness: with min 0.05 s and max 2.0 s, a token with kick forecasts at
\* leads 0.02 s, 0.10 s and 3.0 s was processed and exactly the 0.10 s one
\* came out.
C4_Witness ==
  /\ leCfg.minLatencySec = 10
  /\ leCfg.maxLatencySec = 400
  /\ { hit.tPredSec - leIn.timestampSec : hit \in LeInHits } = {4, 20, 600}
  /\ Len(leOut) = 1
  /\ leOut[1].tPredSec - leIn.timestampSec = 20

\* C33: the sent-map holds an entry only for a forecast that was emitted as
\* a command: every event_id in the map is the event_id of a command put out
\* since the stream started, so a forecast dropped by the instrument policy
\* (any instrument but kick) leaves the map as it was.
C33_SentMapOnlyForEmitted ==
  \A id \in DOMAIN le.sentEvents :
    \E i \in DOMAIN leEmitted : leEmitted[i].eventId = id

\* C34: the cleanup counter counts every frame the filter processes, with
\* or without forecasts: it is the frame count modulo CLEANUP_INTERVAL, so the
\* cleanup runs once every 50 frames.
C34_CleanupEveryFiftyFrames ==
  le.cleanupCounter = le.frameCount % CLEANUP_INTERVAL

\* A step of LightingEngine::reset.
LeResetStep == le' = LeReset /\ leSteps' = 0

\* C35: but for reset, an entry of the sent-map is still in the map, with the
\* tPred it had, after every step that ends at a time t_now with
\* t_now <= tPred + duplicate_window_sec, and no command of that step has its
\* event_id.
C35_EntryKeptInsideWindow ==
  [][ ~LeResetStep =>
        \A id \in DOMAIN le.sentEvents :
          (le'.currentTimeSec
             <= le.sentEvents[id].tPredSec + leCfg.duplicateWindowSec)
            => /\ id \in DOMAIN le'.sentEvents
               /\ le'.sentEvents[id] = le.sentEvents[id]
               /\ \A k \in DOMAIN leOut' : leOut'[k].eventId # id
    ]_vars

\* C35 witness: the cleanup has just run (the counter is back at 0 after at
\* least CLEANUP_INTERVAL frames) and the map still holds an entry of an
\* earlier token (its tPred is closer than min_latency_sec) that is inside
\* the window.
C35_Witness ==
  /\ le.frameCount >= CLEANUP_INTERVAL
  /\ le.cleanupCounter = 0
  /\ \E id \in DOMAIN le.sentEvents :
       /\ le.sentEvents[id].tPredSec < le.currentTimeSec + leCfg.minLatencySec
       /\ le.currentTimeSec
            <= le.sentEvents[id].tPredSec + leCfg.duplicateWindowSec

\* The longest time between two tokens that carry predictions.
MaxTokenStep == CHOOSE d \in TokenSteps : \A e \in TokenSteps : e <= d

MaxLogFrames == 2    \* audio frames the sinks work through in one run

\* instrument_index of the sinks main() creates: kick, snare, clap, chat, ohc
SinkIndex == 0..4

\* Sets of gates that fire (value 1) in a frame: none, kick alone, snare and
\* chat, all five.
FiredSets == { {}, {0}, {1, 3}, SinkIndex }

\* int get_frame() const { return _shared_frame_counter; }
get_frame(l) == l.counter

\* get_and_increment_frame: << value returned, logger afterwards >>
get_and_increment_frame(l) == << l.counter, [l EXCEPT !.counter = @ + 1] >>

\* bool is_enabled() const { return _log_file.is_open(); }
is_enabled(l) == l.enabled

\* log_gate_value: one record per call with value >= 0.5 and a valid index.
\* The record's first component tells which audio frame it was written for.
\* A record reaches the file only if the stream has not failed before and
\* does not fail now.
log_gate_value(recs, l, f, inst_index, value, frame_idx, ioOk) ==
  IF is_enabled(l) /\ value >= 1 /\ inst_index \in SinkIndex
       /\ ~l.failed /\ ioOk
    THEN recs \cup {[of |-> f, instrument |-> inst_index, frame |-> frame_idx]}
    ELSE recs

\* The stream after log_gate_value's "_log_file << ...; _log_file.flush();".
\* A failed write sets the stream's error state; nothing clears it or closes
\* the file.  lateWrite: the insertion ran on a stream that had failed.
log_gate_stream(l, inst_index, value, ioOk) ==
  IF is_enabled(l) /\ value >= 1 /\ inst_index \in SinkIndex
    THEN [l EXCEPT !.failed = @ \/ ~ioOk, !.lateWrite = @ \/ l.failed]
    ELSE l

\* HitPredictionLogger's constructor: counter 0, file open or not.
LogStart ==
  /\ lg \in [enabled : BOOLEAN, counter : {0}, failed : BOOLEAN,
              lateWrite : {FALSE}]
  /\ lg.failed => lg.enabled
  /\ gateTok = [i \in SinkIndex |-> 0]
  /\ sinkRan = SinkIndex
  /\ logRecs = {}
  /\ logFrame = 0
  /\ logBase = 0

LogIdle == lg.enabled /\ ~lg.failed

\* The gates put the next frame's values (0 or 1) on the sinks' inputs.
LogNewFrame ==
  /\ sinkRan = SinkIndex
  /\ logFrame < MaxLogFrames
  /\ \E fired \in FiredSets :
       gateTok' = [i \in SinkIndex |-> IF i \in fired THEN 1 ELSE 0]
  /\ sinkRan' = {}
  /\ logFrame' = logFrame + 1
  /\ logBase' = lg.counter
  /\ UNCHANGED <<lg, logRecs>>
  /\ LogOnly

\* GateLoggerSink::process of the sink with instrument_index i.
GateLoggerSinkProcess(i) ==
  /\ i \notin sinkRan
  /\ sinkRan' = sinkRan \cup {i}
  /\ IF is_enabled(lg)
       THEN LET got == IF i = 0 THEN get_and_increment_frame(lg)
                                ELSE << get_frame(lg), lg >>
            IN \E ioOk \in BOOLEAN :
                 /\ (gateTok[i] < 1 \/ lg.failed) => ioOk
                 /\ lg' = log_gate_stream(got[2], i, gateTok[i], ioOk)
                 /\ logRecs' = log_gate_value(logRecs, got[2], logFrame, i,
                                              gateTok[i], got[1], ioOk)
       ELSE UNCHANGED <<lg, logRecs>>
  /\ UNCHANGED <<gateTok, logFrame, logBase>>
  /\ LogOnly

SinkStep == \E i \in SinkIndex : GateLoggerSinkProcess(i)

LogStep == LogNewFrame \/ SinkStep

\* ---- Claims on the logger's frame counter

\* C5 (as stated): the shared frame counter changes only in the index-0
\* sink's process() and by exactly 1; when a sink with a non-zero index reads
\* the counter, the advance for the frame it is processing has already been
\* made; and when all five sinks have processed a frame the counter has
\* advanced exactly once since the frame began.  (Logger enabled.)
C5_AdvanceBeforeReads ==
  [][ /\ lg'.counter # lg.counter =>
           /\ lg'.counter = lg.counter + 1
           /\ 0 \notin sinkRan /\ sinkRan' = sinkRan \cup {0}
      /\ \A i \in SinkIndex \ {0} :
           (is_enabled(lg) /\ i \notin sinkRan /\ i \in sinkRan') =>
              get_frame(lg) = logBase + 1
      /\ (is_enabled(lg) /\ sinkRan # SinkIndex /\ sinkRan' = SinkIndex) =>
              lg'.counter = logBase + 1 ]_vars

\* C14 (as stated): once a log write has failed with an I/O error the logger
\* is disabled (is_enabled() is false) and no write is attempted any more; the
\* sinks go on processing frames.
C14_DisabledAfterWriteError ==
  /\ lg.failed => ~is_enabled(lg)
  /\ ~lg.lateWrite

\* C37: all gate-hit records written for the same audio frame carry the same
\* frame index, whichever instruments fired and in whichever order the five
\* sinks ran.
C37_SameFrameSameIndex ==
  \A r1, r2 \in logRecs : r1.of = r2.of => r1.frame = r2.frame

(***************************************************************************)
(* Shutdown: main() from the end of the timeout to its return, the feeder  *)
(* and the graph worker (networkThread, running net.run()).                *)
(***************************************************************************)

WaitPolls == 2       \* passes of the 2-second wait loop (100 ms each)
MaxPending == 2      \* frames waiting in the graph's input buffer

MainStart == [pc |-> "sleep", polls |-> 0, networkFinished |-> FALSE]

\* std::thread::joinable(): true from construction until join() or detach(),
\* whether or not the thread's function has returned.
joinable(m) == m.pc \notin {"detached", "aggregated", "srcDeleted",
                            "publishersDeleted", "shutdown", "returned"}

StopStart ==
  /\ mn = MainStart
  /\ feeder = "running"
  /\ shouldStop = FALSE
  /\ net = [state |-> "running", pending |-> 0, busy |-> FALSE]
  /\ torn = {}

\* The process is gone once main() has returned.
Alive == mn.pc # "returned"

\* feeder: RingBufferInput::add of one more frame while g_running.
FeederAdd ==
  /\ Alive /\ feeder = "running" /\ g_running
  /\ net.pending < MaxPending
  /\ net' = [net EXCEPT !.pending = @ + 1]
  /\ UNCHANGED <<g_running, mn, feeder, shouldStop, torn>>
  /\ StopOnly

\* feeder: while (g_running) fails, the thread function returns.
FeederExit ==
  /\ Alive /\ feeder = "running" /\ ~g_running
  /\ feeder' = "exited"
  /\ UNCHANGED <<g_running, mn, shouldStop, net, torn>>
  /\ StopOnly

\* worker: the graph takes the next frame from its input buffer.
WorkerTake ==
  /\ Alive /\ net.state = "running" /\ ~net.busy /\ net.pending > 0
  /\ net' = [net EXCEPT !.pending = @ - 1, !.busy = TRUE]
  /\ UNCHANGED <<g_running, mn, feeder, shouldStop, torn>>
  /\ StopOnly

\* worker: the frame's tokens have passed the gates, publishers and sinks.
WorkerDone ==
  /\ Alive /\ net.state = "running" /\ net.busy
  /\ net' = [net EXCEPT !.busy = FALSE]
  /\ UNCHANGED <<g_running, mn, feeder, shouldStop, torn>>
  /\ StopOnly

\* worker: stop requested and nothing left to process: net.run() returns.
WorkerExit ==
  /\ Alive /\ net.state = "running" /\ ~net.busy /\ net.pending = 0
  /\ shouldStop
  /\ net' = [net EXCEPT !.state = "finished"]
  /\ UNCHANGED <<g_running, mn, feeder, shouldStop, torn>>
  /\ StopOnly

\* SIGINT handler while main() sleeps: g_running = false.
Sigint ==
  /\ mn.pc = "sleep" /\ g_running
  /\ g_running' = FALSE
  /\ UNCHANGED <<mn, feeder, shouldStop, net, torn>>
  /\ StopOnly

\* sleep_for(timeoutSeconds) ends; g_running = false.
MainTimeout ==
  /\ mn.pc = "sleep"
  /\ g_running' = FALSE
  /\ mn' = [mn EXCEPT !.pc = "flagSet"]
  /\ UNCHANGED <<feeder, shouldStop, net, torn>>
  /\ StopOnly

\* src->shouldStop(true);
MainShouldStop ==
  /\ mn.pc = "flagSet"
  /\ shouldStop' = TRUE
  /\ mn' = [mn EXCEPT !.pc = "signalled"]
  /\ UNCHANGED <<g_running, feeder, net, torn>>
  /\ StopOnly

\* feeder.join();
MainJoinFeeder ==
  /\ mn.pc = "signalled" /\ feeder = "exited"
  /\ mn' = [mn EXCEPT !.pc = "feederJoined"]
  /\ UNCHANGED <<g_running, feeder, shouldStop, net, torn>>
  /\ StopOnly

\* Pa_StopStream, Pa_CloseStream, Pa_Terminate; start = now().
MainStopAudio ==
  /\ mn.pc = "feederJoined"
  /\ torn' = torn \cup {"audio"}
  /\ mn' = [mn EXCEPT !.pc = "waiting"]
  /\ UNCHANGED <<g_running, feeder, shouldStop, net>>
  /\ StopOnly

\* One pass of the wait loop: if (!networkThread.joinable()) the network has
\* finished; otherwise sleep 100 ms.
MainWaitPoll ==
  /\ mn.pc = "waiting" /\ mn.polls < WaitPolls /\ ~mn.networkFinished
  /\ mn' = IF ~joinable(mn) THEN [mn EXCEPT !.networkFinished = TRUE]
                            ELSE [mn EXCEPT !.polls = @ + 1]
  /\ UNCHANGED <<g_running, feeder, shouldStop, net, torn>>
  /\ StopOnly

\* After the loop: "finished gracefully", or networkThread.detach().
MainDetach ==
  /\ mn.pc = "waiting" /\ (mn.polls = WaitPolls \/ mn.networkFinished)
  /\ mn' = [mn EXCEPT !.pc = IF mn.networkFinished THEN "graceful"
                                                   ELSE "detached"]
  /\ UNCHANGED <<g_running, feeder, shouldStop, net, torn>>
  /\ StopOnly

\* PoolAggregator and YamlOutput.
MainAggregate ==
  /\ mn.pc \in {"graceful", "detached"}
  /\ mn' = [mn EXCEPT !.pc = "aggregated"]
  /\ UNCHANGED <<g_running, feeder, shouldStop, net, torn>>
  /\ StopOnly

\* delete aggr; delete output; delete src;
MainDeleteSrc ==
  /\ mn.pc = "aggregated"
  /\ torn' = torn \cup {"src"}
  /\ mn' = [mn EXCEPT !.pc = "srcDeleted"]
  /\ UNCHANGED <<g_running, feeder, shouldStop, net>>
  /\ StopOnly

\* delete kick_gate_publisher; ... delete ohc_gate_publisher;
MainDeletePublishers ==
  /\ mn.pc = "srcDeleted"
  /\ torn' = torn \cup {"publishers"}
  /\ mn' = [mn EXCEPT !.pc = "publishersDeleted"]
  /\ UNCHANGED <<g_running, feeder, shouldStop, net>>
  /\ StopOnly

\* essentia::shutdown();
MainEssentiaShutdown ==
  /\ mn.pc = "publishersDeleted"
  /\ torn' = torn \cup {"essentia"}
  /\ mn' = [mn EXCEPT !.pc = "shutdown"]
  /\ UNCHANGED <<g_running, feeder, shouldStop, net>>
  /\ StopOnly

\* return 0: main()'s locals go, ~HitPredictionLogger closes the log file.
MainReturn ==
  /\ mn.pc = "shutdown"
  /\ torn' = torn \cup {"log"}
  /\ mn' = [mn EXCEPT !.pc = "returned"]
  /\ UNCHANGED <<g_running, feeder, shouldStop, net>>
  /\ StopOnly

StopStep ==
  \/ FeederAdd \/ FeederExit
  \/ WorkerTake \/ WorkerDone \/ WorkerExit
  \/ Sigint \/ MainTimeout \/ MainShouldStop \/ MainJoinFeeder
  \/ MainStopAudio \/ MainWaitPoll \/ MainDetach \/ MainAggregate
  \/ MainDeleteSrc \/ MainDeletePublishers \/ MainEssentiaShutdown
  \/ MainReturn

\* ---- Claims on shutdown

\* C6 (as stated): when a publisher is shut down the worker has drained every
\* in-flight token and finished; the log is closed only after the publishers
\* are shut down; and nothing of the graph (source, publishers, library, log)
\* is torn down while the worker may still process a token.
C6_DrainBeforeTeardown ==
  /\ "publishers" \in torn =>
        (net.state = "finished" /\ net.pending = 0 /\ ~net.busy)
  /\ "log" \in torn => "publishers" \in torn
  /\ torn \cap {"src", "publishers", "essentia", "log"} # {} =>
        net.state = "finished"

\* C38: if the graph worker has finished (net.run() has returned) when main()
\* leaves the 2-second wait, shutdown takes the graceful path: the worker is
\* recognised as finished and the thread is not detached.
C38_GracefulWhenWorkerFinished ==
  [][ ( /\ mn.pc = "waiting"
        /\ mn'.pc \in {"graceful", "detached"}
        /\ net.state = "finished" )
      => (mn'.networkFinished /\ mn'.pc = "graceful") ]_vars

(***************************************************************************)
(* InstrumentPredictor                                                     *)
(*                                                                         *)
(* Times are integers counting hundredths of a second, phases count        *)
(* thousandths of a cycle and confidences hundredths.  The frame period    *)
(* hopSize / sampleRate is 0.2 s (hopSize 1600 at 8000 Hz).  Two of the    *)
(* five trackers are carried; a tracker reads no other tracker's state.    *)
(* The covariance matrix P is not carried: the update uses the gains of    *)
(* the first update after warm-up (K0 = 0 as P01 = 0, K1 = 1 as P11 >> R), *)
(* and the phase-variance term of the confidence, which is computed from   *)
(* P11 alone, is an input of the step.                                     *)
(***************************************************************************)

MaxPredFrames == 6   \* process() calls in one run

Instruments == {"kick", "snare"}

\* const int MAX_HITS = 20;
MAX_HITS == 20

\* static_cast<Real>(_hopSize) / _sampleRate
FrameDt == 20

\* configure(): main()'s parameters with min_hits_for_seed = 8, and the same
\* with the lowest min_hits_for_seed, the highest max_bpm (300: the shortest
\* period is 0.2 s), the highest min_bpm (120: the longest period is 0.5 s)
\* and a longer periodic interval.
PredConfigs ==
  { [minHitsForSeed |-> 8, minPeriod |-> 30, maxPeriod |-> 100,
     horizon |-> 200, maxPredictions |-> 2, confidenceMin |-> 30,
     periodicInterval |-> 15],
    [minHitsForSeed |-> 3, minPeriod |-> 20, maxPeriod |-> 50,
     horizon |-> 200, maxPredictions |-> 2, confidenceMin |-> 30,
     periodicInterval |-> 50] }

\* Values of the Kalman gain K0 = P01 / S, in hundredths of a second of period
\* per unit of phase residual.  The covariance is not modelled; the gain on
\* the period is an input of every update.
K0Gains == {-40, 0, 60}

\* Values of the phase-variance confidence term (hundredths).
PhaseConfidences == {0, 90}

\* InstrumentState()
InstrumentState ==
  [warmupComplete |-> FALSE, hitTimes |-> <<>>, ioiBuffer |-> <<>>,
   periodMedian |-> 0, periodMAD |-> 0, period |-> 50, phase |-> 0,
   lastHitTime |-> -1, hitsSeen |-> 0]

SeqRange(s) == {s[i] : i \in 1..Len(s)}

\* the k-th smallest element of a non-empty sequence (k from 1)
KthSmallest(s, k) ==
  CHOOSE v \in SeqRange(s) :
    /\ Cardinality({i \in 1..Len(s) : s[i] < v}) < k
    /\ Cardinality({i \in 1..Len(s) : s[i] <= v}) >= k

Abs(x) == IF x < 0 THEN -x ELSE x

\* computeMedian
computeMedian(values) ==
  IF values = <<>> THEN 0
  ELSE IF Len(values) = 1 THEN values[1]
  ELSE LET mid == Len(values) \div 2
       IN IF Len(values) % 2 = 0
            THEN (KthSmallest(values, mid) + KthSmallest(values, mid + 1)) \div 2
            ELSE KthSmallest(values, mid + 1)

\* computeMAD: 1.4826 * median of the absolute deviations
computeMAD(values, median) ==
  IF values = <<>> THEN 0
  ELSE (14826 * computeMedian([i \in 1..Len(values) |->
                                  Abs(values[i] - median)])) \div 10000

\* wrapPhase: to [0, 1)
wrapPhase(phase) == phase % 1000

\* wrapPhaseResidual: to [-0.5, 0.5)
wrapPhaseResidual(residual) == ((residual + 500) % 1000) - 500

\* The inter-onset intervals of hitTimes that pass the outlier filter.
RECURSIVE FilteredIOIs(_, _, _)
FilteredIOIs(cfg, hitTimes, i) ==
  IF i > Len(hitTimes) THEN <<>>
  ELSE LET ioi == hitTimes[i] - hitTimes[i - 1]
           rest == FilteredIOIs(cfg, hitTimes, i + 1)
       IN IF ioi >= cfg.minPeriod /\ ioi <= cfg.maxPeriod * 4
            THEN <<ioi>> \o rest ELSE rest

\* updateIOIStatistics
updateIOIStatistics(cfg, inst) ==
  IF Len(inst.hitTimes) < 2 THEN inst
  ELSE LET iois == FilteredIOIs(cfg, inst.hitTimes, 2)
           med == computeMedian(iois)
       IN IF Len(iois) >= 2
            THEN [inst EXCEPT !.ioiBuffer = iois, !.periodMedian = med,
                              !.periodMAD = computeMAD(iois, med)]
            ELSE [inst EXCEPT !.ioiBuffer = iois]

\* kalmanPredict: nothing before warm-up; then the phase advances by
\* dt / period.
kalmanPredict(inst, dt) ==
  IF ~inst.warmupComplete THEN inst
  ELSE IF inst.period > 0
    THEN [inst EXCEPT !.phase = wrapPhase(@ + (dt * 1000) \div inst.period)]
    ELSE inst

\* kalmanUpdate: period -= K0 * residual, phase -= K1 * residual, then the
\* damped period correction when |residual| > 0.1.
kalmanUpdate(inst, phaseResidual, K0) ==
  LET moved == [inst EXCEPT !.period = @ - (K0 * phaseResidual) \div 1000,
                            !.phase = wrapPhase(@ - phaseResidual)]
  IN IF Abs(phaseResidual) > 100
       THEN [moved EXCEPT !.period = @ - (phaseResidual * @) \div 10000]
       ELSE moved

\* The warm-up test of updateInstrumentState.
SeedReady(cfg, inst) ==
  /\ inst.hitsSeen >= cfg.minHitsForSeed
  /\ Len(inst.ioiBuffer) >= cfg.minHitsForSeed - 1

\* inst.period = std::max(minPeriod, std::min(maxPeriod, inst.period));
ClampPeriodNever(cfg, period) == period
ClampPeriod(cfg, period) == Max(cfg.minPeriod, Min(cfg.maxPeriod, period))

\* updateInstrumentState(idx, true, currentTime)
updateInstrumentState(cfg, inst, currentTime, K0) ==
  LET pushed == inst.hitTimes \o <<currentTime>>
      a == [inst EXCEPT
              !.hitTimes = IF Len(pushed) > MAX_HITS THEN Tail(pushed)
                                                     ELSE pushed,
              !.lastHitTime = currentTime,
              !.hitsSeen = @ + 1]
      b == IF Len(a.hitTimes) >= 2 THEN updateIOIStatistics(cfg, a) ELSE a
      c == IF Len(a.hitTimes) >= 2 /\ ~b.warmupComplete /\ SeedReady(cfg, b)
             THEN [b EXCEPT !.warmupComplete = TRUE,
                            !.period = b.periodMedian, !.phase = 0]
             ELSE b
      d == kalmanUpdate(c, wrapPhaseResidual(c.phase), K0)
  IN IF c.warmupComplete
       THEN [d EXCEPT !.period = ClampPeriod(cfg, @)]
       ELSE c

\* exp(-x) in hundredths for x given in tenths, rounded down to a step.
ExpNeg(x10) ==
  IF x10 <= 0 THEN 100 ELSE IF x10 < 3 THEN 74 ELSE IF x10 < 7 THEN 49
  ELSE IF x10 < 10 THEN 36 ELSE IF x10 < 16 THEN 20 ELSE IF x10 < 23 THEN 10
  ELSE IF x10 < 30 THEN 4 ELSE IF x10 < 46 THEN 1 ELSE 0

\* computeConfidence, the IOI stability term (hundredths):
\* cIOI = 0; if (period > 1e-6 && periodMAD > 0) cIOI = clamp(1 - MAD/period)
IoiStability(inst) ==
  IF inst.period > 0 /\ inst.periodMAD > 0
    THEN Min(100, Max(0, 100 - (100 * inst.periodMAD) \div inst.period))
    ELSE 0

\* computeConfidence: 0.4 * cPhase + 0.3 * cIOI + 0.3 * cRecency, with the
\* decay rate at its default 0.1.
computeConfidence(inst, frameTime, cPhase) ==
  LET cIOI == IoiStability(inst)
      cRecency == IF inst.lastHitTime > 0 /\ inst.period > 0
                    THEN ExpNeg((100 * (frameTime - inst.lastHitTime))
                                   \div inst.period)
                    ELSE 100
  IN (40 * cPhase + 30 * cIOI + 30 * cRecency) \div 100

\* if (!inst.warmupComplete || inst.period < 1e-6) return hits;
NotReadyPeriodOnly(inst) == inst.period <= 0
NotReady(inst) == ~inst.warmupComplete \/ inst.period <= 0

\* The loop of predictForInstrument from hit number hitIndex on.
RECURSIVE ProjectHits(_, _, _, _, _, _)
ProjectHits(cfg, inst, currentTime, tNext, hitIndex, conf) ==
  IF hitIndex <= cfg.maxPredictions /\ tNext <= currentTime + cfg.horizon
    THEN LET rest == ProjectHits(cfg, inst, currentTime, tNext + inst.period,
                                 hitIndex + 1, conf)
         IN IF conf >= cfg.confidenceMin
              THEN << [tPredSec |-> tNext, hitIndex |-> hitIndex,
                       confidence |-> conf] >> \o rest
              ELSE rest
    ELSE <<>>

\* predictForInstrument
predictForInstrument(cfg, inst, currentTime, cPhase) ==
  IF NotReady(inst) THEN <<>>
  ELSE ProjectHits(cfg, inst, currentTime,
                   currentTime + ((1000 - inst.phase) * inst.period) \div 1000,
                   1, computeConfidence(inst, currentTime, cPhase))

\* prOut when the last process() call did not call generatePredictions, or
\* generatePredictions returned at once.
NoEmission == [emitted |-> FALSE, hits |-> [i \in Instruments |-> <<>>]]

\* generatePredictions: the forecast lists that are serialised, logged and
\* published, or nothing when ZeroMQ is not initialised.
generatePredictions(cfg, st, currentTime, cPhase) ==
  IF ~st.zmqInitialized THEN NoEmission
  ELSE [emitted |-> TRUE,
        hits |-> [i \in Instruments |->
                    predictForInstrument(cfg, st.inst[i], currentTime, cPhase)]]

\* reset(), with the outcome of initializeZeroMQ
PredReset(zmq) ==
  [frameCount |-> 0, lastEmissionTime |-> 0, zmqInitialized |-> zmq,
   inst |-> [i \in Instruments |-> InstrumentState]]

PredStart ==
  /\ pr \in {PredReset(z) : z \in BOOLEAN}
  /\ prOut = NoEmission
  /\ prCount = [i \in Instruments |-> 0]
  /\ prSteps = 0

PredIdle ==
  /\ prCfg = CHOOSE c \in PredConfigs : c.minHitsForSeed = 8
  /\ pr.zmqInitialized

\* process() on a gate vector: hits is the set of instruments with a gate
\* value >= 0.5.
PredictorProcess ==
  /\ prSteps < MaxPredFrames
  /\ \E hits \in SUBSET Instruments, cPhase \in PhaseConfidences,
        K0 \in K0Gains :
       LET frameTime == pr.frameCount * FrameDt
           upd == [i \in Instruments |->
                     LET p == kalmanPredict(pr.inst[i], FrameDt)
                     IN IF i \in hits
                          THEN updateInstrumentState(prCfg, p, frameTime, K0)
                          ELSE p]
           shouldEmit == hits # {} \/
                         frameTime - pr.lastEmissionTime >= prCfg.periodicInterval
           st == [pr EXCEPT !.inst = upd]
           out == IF shouldEmit
                    THEN generatePredictions(prCfg, st, frameTime, cPhase)
                    ELSE NoEmission
       IN /\ pr' = [st EXCEPT !.frameCount = @ + 1,
                              !.lastEmissionTime =
                                  IF shouldEmit THEN frameTime ELSE @]
          /\ prOut' = out
          /\ prCount' = [i \in Instruments |-> prCount[i] + Len(out.hits[i])]
  /\ prSteps' = prSteps + 1
  /\ UNCHANGED prCfg
  /\ PredOnly

\* process() on an empty input or a gate vector shorter than NUM_INSTRUMENTS:
\* the output is cleared and nothing else changes.
PredictorSkip ==
  /\ prSteps < MaxPredFrames
  /\ prOut' = NoEmission
  /\ prSteps' = prSteps + 1
  /\ UNCHANGED <<prCfg, pr, prCount>>
  /\ PredOnly

\* reset(): trackers, frame count and emission time start again.
PredictorReset ==
  /\ prSteps < MaxPredFrames
  /\ pr.frameCount > 0
  /\ \E z \in BOOLEAN : pr' = PredReset(z)
  /\ prOut' = NoEmission
  /\ prCount' = [i \in Instruments |-> 0]
  /\ prSteps' = prSteps + 1
  /\ UNCHANGED prCfg
  /\ PredOnly

PredStep == PredictorProcess \/ PredictorSkip \/ PredictorReset

\* ---- Claims on the predictor

\* C18 (as stated): a frame the predictor processes emits a forecast record
\* if some gate reports a hit in it, and a frame without a hit emits one
\* exactly when at least periodic_interval_sec have passed since the last
\* emission.
C18_EmissionCadence ==
  [][ pr'.frameCount = pr.frameCount + 1 =>
        LET anyHit == \E i \in Instruments :
                        pr'.inst[i].hitsSeen = pr.inst[i].hitsSeen + 1
            elapsed == pr.frameCount * FrameDt - pr.lastEmissionTime
        IN prOut'.emitted <=> (anyHit \/ elapsed >= prCfg.periodicInterval)
    ]_vars

\* The same cadence for a predictor whose ZeroMQ socket was connected.
C18_CadenceWhenConnected ==
  [][ (pr.zmqInitialized /\ pr'.frameCount = pr.frameCount + 1) =>
        LET anyHit == \E i \in Instruments :
                        pr'.inst[i].hitsSeen = pr.inst[i].hitsSeen + 1
            elapsed == pr.frameCount * FrameDt - pr.lastEmissionTime
        IN prOut'.emitted <=> (anyHit \/ elapsed >= prCfg.periodicInterval)
    ]_vars

\* C19: a tracker that has completed warm-up has its period within
\* [60 / max_bpm, 60 / min_bpm] after the update that warmed it, after every
\* later hit-driven update and on every frame in between, until reset.
C19_PeriodWithinBpmBounds ==
  \A i \in Instruments :
    pr.inst[i].warmupComplete =>
      /\ pr.inst[i].period >= prCfg.minPeriod
      /\ pr.inst[i].period <= prCfg.maxPeriod

\* C19 witness: a warm tracker took a hit after its warm-up, the update left
\* its period on a bound and away from the median of its intervals, and a
\* frame without a hit for it has passed since.
C19_Witness ==
  \E i \in Instruments :
    /\ pr.inst[i].warmupComplete
    /\ pr.inst[i].hitsSeen > prCfg.minHitsForSeed
    /\ pr.inst[i].period \in {prCfg.minPeriod, prCfg.maxPeriod}
    /\ pr.inst[i].period # pr.inst[i].periodMedian
    /\ pr.inst[i].lastHitTime < (pr.frameCount - 1) * FrameDt

\* C8: an instrument that has not completed warm-up has no forecast hit in
\* the lists of the frame just processed and has had none since the last
\* reset; in particular, with min_hits_for_seed = 8 an instrument with at
\* most five observed hits has zero forecasts.
C8_NoForecastBeforeWarmup ==
  \A i \in Instruments :
    /\ ~pr.inst[i].warmupComplete =>
          /\ prCount[i] = 0
          /\ prOut.hits[i] = <<>>
    /\ (prCfg.minHitsForSeed = 8 /\ pr.inst[i].hitsSeen <= 5) =>
          prCount[i] = 0

\* C8 witness: with min_hits_for_seed = 8, the frame carrying kick's fifth
\* hit has been processed and its forecast lists were generated, with none
\* for kick.
C8_Witness ==
  /\ prCfg.minHitsForSeed = 8
  /\ pr.zmqInitialized
  /\ pr.inst["kick"].hitsSeen = 5
  /\ pr.inst["kick"].lastHitTime = (pr.frameCount - 1) * FrameDt
  /\ ~pr.inst["kick"].warmupComplete
  /\ prOut.emitted
  /\ prOut.hits["kick"] = <<>>
  /\ prCount["kick"] = 0

\* C31 (as stated): on every frame the predict step advances the phase of
\* every instrument by dt / period, warm or not; seen on the instruments
\* that take no hit in the frame, whose phase nothing else touches.
C31_PredictOnEveryFrame ==
  [][ pr'.frameCount = pr.frameCount + 1 =>
        \A i \in Instruments :
          (pr'.inst[i].hitsSeen = pr.inst[i].hitsSeen /\ pr.inst[i].period > 0)
            => pr'.inst[i].phase
                 = wrapPhase(pr.inst[i].phase
                               + (FrameDt * 1000) \div pr.inst[i].period)
    ]_vars

\* C32 (as stated): for every warm instrument the IOI stability term is
\* clamp(1 - periodMAD / period, 0, 1), also with periodMAD = 0.
C32_IoiTermIsClamp ==
  \A i \in Instruments :
    (pr.inst[i].warmupComplete /\ pr.inst[i].period > 0) =>
      IoiStability(pr.inst[i])
        = Min(100, Max(0, 100 - (100 * pr.inst[i].periodMAD)
                                  \div pr.inst[i].period))

(***************************************************************************)
(* HitGateOnset                                                            *)
(*                                                                         *)
(* Energies, ODF values and thresholds are integers counting 1/240 of the  *)
(* unit: every input is a multiple of 1.0, so the moving average (window   *)
(* up to 3), the two halvings of the median and the MAD, and the product   *)
(* with a threshold given in tenths are all exact.                         *)
(***************************************************************************)

MaxGateFrames == 9   \* process() calls between two resets

\* 1.0 in the model's scale
GateUnit == 6 * 4 * 10

\* configure(): refractory = 6 with the "rms" method, threshold 0.2 and no
\* warm-up; "rms" with threshold 0 and warm-up; "hfc" with main()'s snare
\* threshold.
GateConfigs ==
  { [method |-> "rms", threshold10 |-> 2, refractory |-> 6, warmup |-> 0,
     smoothWindow |-> 1, odfWindow |-> 8],
    [method |-> "rms", threshold10 |-> 0, refractory |-> 2, warmup |-> 2,
     smoothWindow |-> 3, odfWindow |-> 8],
    [method |-> "hfc", threshold10 |-> 14, refractory |-> 2, warmup |-> 3,
     smoothWindow |-> 2, odfWindow |-> 8] }

\* Inputs offered after an input of last: silence, a step up, a jump up.
GateInputs(last) == {0, last + GateUnit, last + 4 * GateUnit}

\* reset()
GateReset ==
  [framesSeen |-> 0, refCount |-> 0, detectionEnabled |-> FALSE,
   odfHistory |-> <<>>, odfThreshHistory |-> <<>>, prevSmoothed |-> 0,
   wasAbove |-> FALSE]

\* if (_framesSeen >= _warmup) _detectionEnabled = true;
WarmupReachedEarly(framesSeen, warmup) == framesSeen + 1 >= warmup
WarmupReached(framesSeen, warmup) == framesSeen >= warmup

\* The onset detection function value of the frame.
OdfValue(cfg, odfHistory, currentFrame) ==
  IF cfg.method \in {"hfc", "flux"}
    THEN IF Len(odfHistory) >= 2
           THEN Max(0, currentFrame - odfHistory[Len(odfHistory)])
           ELSE 0
  ELSE IF cfg.method = "rms" THEN currentFrame
  ELSE IF Len(odfHistory) >= 1
         THEN Max(0, currentFrame - odfHistory[Len(odfHistory)])
         ELSE 0

\* push_back, then erase(begin()) when longer than the window
PushWindow(hist, v, window) ==
  LET pushed == hist \o <<v>>
  IN IF Len(pushed) > window THEN Tail(pushed) ELSE pushed

RECURSIVE SeqSum(_)
SeqSum(s) == IF s = <<>> THEN 0 ELSE Head(s) + SeqSum(Tail(s))

\* smoothODF: << _odfHistory afterwards, moving average >>
smoothODF(cfg, odfHistory, odfValue) ==
  LET hist == PushWindow(odfHistory, odfValue, cfg.smoothWindow)
  IN << hist, SeqSum(hist) \div Len(hist) >>

\* computeMedianAndMAD: << median, mad >>, each the middle element or the
\* mean of the two middle elements
MiddleOf(values) ==
  LET n == Len(values)
      mid == n \div 2
  IN IF n % 2 = 0
       THEN (KthSmallest(values, mid + 1) + KthSmallest(values, mid)) \div 2
       ELSE KthSmallest(values, mid + 1)

computeMedianAndMAD(values) ==
  IF values = <<>> THEN <<0, 0>>
  ELSE LET median == MiddleOf(values)
           devs == [i \in 1..Len(values) |-> Abs(values[i] - median)]
       IN << median, MiddleOf(devs) >>

\* dynamicThreshold, in tenths of the model's scale.  With mad = 0 the floor
\* 1e-6 adds an amount that is positive and below the scale's resolution.
DynamicThreshold10(cfg, odfThreshHistory) ==
  IF Len(odfThreshHistory) >= 8
    THEN LET stats == computeMedianAndMAD(odfThreshHistory)
             k10 == IF cfg.threshold10 > 0 THEN cfg.threshold10 ELSE 3
         IN IF stats[2] > 0 THEN 10 * stats[1] + k10 * stats[2]
                            ELSE 10 * stats[1] + 1
    ELSE cfg.threshold10 * GateUnit

\* bool above = smoothedODF > dynamicThreshold;
AboveOrEqual(smoothed, threshold10) == 10 * smoothed >= threshold10
Above(smoothed, threshold10) == 10 * smoothed > threshold10

\* if (_detectionEnabled) { ... }: the refractory counter plays no part
DetectionRunsOutsideRefractory(enabled, refCount) == enabled /\ refCount = 0
DetectionRuns(enabled, refCount) == enabled

\* if (_refCount != 0) hit = 0.0f;
RefractoryBlocksNever(refCount) == FALSE
RefractoryBlocks(refCount) == refCount # 0

\* if (above && !_wasAbove && rising) hit = 1.0f;
EdgeTriggerLevel(above, wasAbove, rising) == above /\ rising
EdgeTrigger(above, wasAbove, rising) == above /\ ~wasAbove /\ rising

\* HitGateOnset::process on one input value:
\* [st |-> state afterwards, out |-> outBuf[0], above |-> "above" when it
\*  was computed, FALSE when detection was not enabled]
GateProcessFrame(cfg, st, currentFrame) ==
  LET framesSeen == st.framesSeen + 1
      refCount == IF st.refCount > 0 THEN st.refCount - 1 ELSE st.refCount
      enabled == st.detectionEnabled \/ WarmupReached(framesSeen, cfg.warmup)
      odfValue == OdfValue(cfg, st.odfHistory, currentFrame)
      sm == smoothODF(cfg, st.odfHistory, odfValue)
      threshHist == PushWindow(st.odfThreshHistory, sm[2], cfg.odfWindow)
      above == Above(sm[2], DynamicThreshold10(cfg, threshHist))
      rising == sm[2] >= st.prevSmoothed
      runs == DetectionRuns(enabled, refCount)
      detected == runs /\ EdgeTrigger(above, st.wasAbove, rising)
      hit == IF RefractoryBlocks(refCount) THEN 0
             ELSE IF detected THEN 1 ELSE 0
      base == [st EXCEPT !.framesSeen = framesSeen,
                         !.refCount = IF hit = 1 THEN cfg.refractory
                                                 ELSE refCount,
                         !.detectionEnabled = enabled]
  IN [st |-> IF runs
               THEN [base EXCEPT !.odfHistory = sm[1],
                                 !.odfThreshHistory = threshHist,
                                 !.prevSmoothed = sm[2],
                                 !.wasAbove = above]
               ELSE base,
      out |-> hit,
      above |-> runs /\ above]

GateStart ==
  /\ gt = GateReset
  /\ gOuts = <<>>
  /\ gIns = <<>>
  /\ gAbove = TRUE

GateIdle == gCfg = CHOOSE c \in GateConfigs : c.refractory = 6

\* One process() call on the next input value.
GateProcess ==
  /\ Len(gIns) < MaxGateFrames
  /\ \E x \in GateInputs(IF gIns = <<>> THEN 0 ELSE gIns[Len(gIns)]) :
       \E r \in {GateProcessFrame(gCfg, gt, x)} :
          /\ gt' = r.st
          /\ gOuts' = Append(gOuts, r.out)
          /\ gIns' = Append(gIns, x)
          /\ gAbove' = (gAbove /\ r.above)
  /\ UNCHANGED gCfg
  /\ GateOnly

\* reset(): the gate and the histories of its stream start again.
GateResetCall ==
  /\ gIns # <<>>
  /\ gt' = GateReset
  /\ gOuts' = <<>>
  /\ gIns' = <<>>
  /\ gAbove' = TRUE
  /\ UNCHANGED gCfg
  /\ GateOnly

GateStep == GateProcess \/ GateResetCall

\* ---- Claims on the gate

\* C9: the gate's output is 0 on every frame on which framesSeen (the frame's
\* number since the last reset, as process() has counted it) is below warmup,
\* whatever the inputs were.
C9_NoHitDuringWarmup ==
  \A n \in 1..Len(gOuts) : n < gCfg.warmup => gOuts[n] = 0

\* C9 witness: with warmup = 2 the first frame carried a large input and gave
\* 0, and the second frame, the first with framesSeen >= warmup, gave 1.
C9_Witness ==
  /\ gCfg.warmup = 2
  /\ Len(gOuts) >= 2
  /\ gIns[1] >= 4 * GateUnit
  /\ gOuts[1] = 0
  /\ gOuts[2] = 1

\* The input so far is a strictly increasing ramp.
IsRamp(ins) == \A n \in 1..Len(ins) : ins[n] > (IF n = 1 THEN 0 ELSE ins[n - 1])

\* Number of 1s among frames a..b of the output.
Ones(outs, a, b) == Cardinality({n \in a..b : outs[n] = 1})

\* The case of C10: refractory = 6, a ramp, above the threshold on every
\* frame processed so far.
RampAboveThreshold ==
  /\ gCfg.refractory = 6
  /\ gIns # <<>>
  /\ IsRamp(gIns)
  /\ gAbove

GateLastOut == gOuts[Len(gOuts)]

\* _refCount after the decrement at the start of process()
RefCountAfterDecrement(st) == IF st.refCount > 0 THEN st.refCount - 1 ELSE 0

\* C26: on every frame on which detection is enabled and the refractory
\* counter is 0, the output is 1 if and only if the smoothed ODF is strictly
\* above the threshold, it was not above on the previous frame, and it is
\* not below the previous smoothed value; otherwise the output is 0.
C26_EdgeTriggeredOutput ==
  [][(Len(gIns') = Len(gIns) + 1 /\ gt'.detectionEnabled
      /\ RefCountAfterDecrement(gt) = 0)
     => LET smoothed == gt'.prevSmoothed
            above == 10 * smoothed
                       > DynamicThreshold10(gCfg, gt'.odfThreshHistory)
            fires == above /\ ~gt.wasAbove /\ smoothed >= gt.prevSmoothed
        IN gOuts'[Len(gOuts')] = (IF fires THEN 1 ELSE 0)]_vars

\* C26 witness: a second hit, on a frame that crossed the threshold from
\* below after the refractory period of the first hit had run out.
C26_Witness ==
  /\ Len(gOuts) >= 3
  /\ GateLastOut = 1
  /\ \E n \in 1..(Len(gOuts) - 1) : gOuts[n] = 1
  /\ gt.wasAbove

\* C27: any two frames with output 1 are at least refractory frames apart
\* (refractory >= 1).
C27_HitsRefractoryApart ==
  gCfg.refractory >= 1 =>
    \A a, b \in 1..Len(gOuts) :
      (a < b /\ gOuts[a] = 1 /\ gOuts[b] = 1) => b - a >= gCfg.refractory

\* C27 witness: two hits exactly refractory frames apart.
C27_Witness ==
  \E a \in 1..Len(gOuts) :
    /\ a + gCfg.refractory <= Len(gOuts)
    /\ gOuts[a] = 1
    /\ gOuts[a + gCfg.refractory] = 1

\* What the detection keeps from frame to frame.
GateTracked(st) ==
  <<st.odfHistory, st.odfThreshHistory, st.prevSmoothed, st.wasAbove>>

\* C28: on a frame on which the refractory counter is not 0 the smoothing
\* window, the threshold history, the previous smoothed value and the
\* was-above flag change exactly as they would with the counter at 0; only
\* the output is forced to 0.
C28_RefractoryFramesStillTracked ==
  [][Len(gIns') = Len(gIns) + 1
     => /\ \E free \in {GateProcessFrame(gCfg, [gt EXCEPT !.refCount = 0],
                                          gIns'[Len(gIns')]).st} :
             GateTracked(gt') = GateTracked(free)
        /\ RefCountAfterDecrement(gt) # 0 => gOuts'[Len(gOuts')] = 0]_vars

\* C28 witness: a hit, a silent frame, then a frame that crosses the
\* threshold inside the refractory period: no output, the flag is set.
C28_Witness ==
  /\ gCfg.refractory = 6
  /\ Len(gIns) = 3
  /\ gOuts[1] = 1
  /\ gIns[2] = 0
  /\ gIns[3] > 0
  /\ gOuts[3] = 0
  /\ gt.wasAbove
  /\ gt.refCount > 0

\* C29 (as stated): with the methods hfc, flux and the default one, once
\* the history holds the entries the method asks for, the ODF value of a
\* frame is max(0, x - last_x), last_x being the input of the frame before.
C29_OdfIsEnergyRise ==
  [][(Len(gIns') = Len(gIns) + 1 /\ gt'.detectionEnabled
      /\ gCfg.method # "rms" /\ Len(gIns) >= 1
      /\ Len(gt.odfHistory) >= (IF gCfg.method \in {"hfc", "flux"}
                                  THEN 2 ELSE 1))
     => gt'.odfHistory[Len(gt'.odfHistory)]
          = Max(0, gIns'[Len(gIns')] - gIns[Len(gIns)])]_vars

\* C30 (as stated): with 8 or more values in the threshold history the
\* threshold is median + max(k, 0.3) * max(MAD, 1e-6); with fewer it is the
\* configured threshold.
C30_ThresholdFormula ==
  (gt.detectionEnabled /\ gt.odfThreshHistory # <<>>) =>
    LET stats == computeMedianAndMAD(gt.odfThreshHistory)
        k10 == Max(gCfg.threshold10, 3)
        stated == IF Len(gt.odfThreshHistory) >= 8
                    THEN IF stats[2] > 0 THEN 10 * stats[1] + k10 * stats[2]
                                         ELSE 10 * stats[1] + 1
                    ELSE gCfg.threshold10 * GateUnit
    IN DynamicThreshold10(gCfg, gt.odfThreshHistory) = stated

(***************************************************************************)
(* MQTTPublisher: wall-clock conversion and publishing                     *)
(*                                                                         *)
(* tPredSec is counted in quarters of a microsecond, so that a fraction of *)
(* a second can round up to 1000000 microseconds.                          *)
(***************************************************************************)

MaxMqttCmds == 3     \* commands received in one stream

QuarterPerMicro == 2 * 2
MicroPerSec == 1000 * 1000
QuarterPerSec == QuarterPerMicro * MicroPerSec

\* tPredSec of the commands: 0.5 quarter-microseconds above 0, 1.0 s, 1.75 s,
\* and a fraction one quarter-microsecond short of the next second.
TPreds == {2, QuarterPerSec, 7 * MicroPerSec, 2 * QuarterPerSec - 1}

\* gettimeofday() at configure time (tv_sec, tv_usec), or its failure.
StartTimes ==
  { [ok |-> TRUE, sec |-> 1700000000, usec |-> 500000],
    [ok |-> TRUE, sec |-> 1700000000, usec |-> 999999],
    [ok |-> FALSE, sec |-> 0, usec |-> 0] }

\* gettimeofday() inside convertToUnixTime's fallback.
NowTimes == { [sec |-> 1700000003, usec |-> 0],
              [sec |-> 1700000003, usec |-> 999999] }

\* What async_client::publish does with a message.
PublishOutcomes == {"ok", "throws"}

\* C++ integer division and remainder (truncation toward zero).
TruncDiv(a, b) == IF a >= 0 THEN a \div b ELSE -((-a) \div b)
TruncRem(a, b) == a - TruncDiv(a, b) * b

\* time_t predSeconds = static_cast<time_t>(std::floor(tPredSec));
PredSeconds(tq) == tq \div QuarterPerSec

\* long predMicroseconds = std::round(fractionalSec * 1000000.0);
PredMicrosecondsTruncated(fractionalQ) == TruncDiv(fractionalQ, QuarterPerMicro)
PredMicroseconds(fractionalQ) ==
  IF fractionalQ >= 0
    THEN (fractionalQ + QuarterPerMicro \div 2) \div QuarterPerMicro
    ELSE -((QuarterPerMicro \div 2 - fractionalQ) \div QuarterPerMicro)

\* if (microseconds >= 1000000) { carry into unixTime }
CarryOverflowDropSeconds(t) ==
  IF t.microseconds >= MicroPerSec
    THEN [t EXCEPT !.microseconds = TruncRem(t.microseconds, MicroPerSec)]
    ELSE t
CarryOverflow(t) ==
  IF t.microseconds >= MicroPerSec
    THEN [unixTime |-> t.unixTime + TruncDiv(t.microseconds, MicroPerSec),
          microseconds |-> TruncRem(t.microseconds, MicroPerSec)]
    ELSE t

\* if (microseconds < 0) { borrow from unixTime }
BorrowUnderflow(t) ==
  IF t.microseconds < 0
    THEN LET borrowSeconds ==
               TruncDiv(t.microseconds - (MicroPerSec - 1), MicroPerSec)
         IN [unixTime |-> t.unixTime + borrowSeconds,
             microseconds |-> t.microseconds - borrowSeconds * MicroPerSec]
    ELSE t

\* "Final safety check"
FinalSafety(t) ==
  IF t.microseconds < 0 \/ t.microseconds >= MicroPerSec
    THEN LET adjust == TruncDiv(t.microseconds, MicroPerSec)
             m == t.microseconds - adjust * MicroPerSec
         IN IF m < 0
              THEN [unixTime |-> t.unixTime + adjust - 1,
                    microseconds |-> m + MicroPerSec]
              ELSE [unixTime |-> t.unixTime + adjust, microseconds |-> m]
    ELSE t

\* MQTTPublisher::convertToUnixTime
convertToUnixTime(m, tq, now) ==
  IF ~m.timeInitialized
    THEN [unixTime |-> now.sec, microseconds |-> now.usec]
    ELSE LET predSeconds == PredSeconds(tq)
             fractionalQ == tq - predSeconds * QuarterPerSec
             predMicroseconds == PredMicroseconds(fractionalQ)
         IN FinalSafety(BorrowUnderflow(CarryOverflow(
              [unixTime |-> m.startUnixTime + predSeconds,
               microseconds |-> m.startMicroseconds + predMicroseconds])))

\* MQTTPublisher::serializeMQTTMessage (the fields looked at here)
serializeMQTTMessage(t, eventId) ==
  [unix_time |-> t.unixTime, microseconds |-> t.microseconds,
   event_id |-> eventId]

\* MQTTPublisher::publishSingleCommand on the histories h = [att, pub, err]
publishSingleCommand(m, h, cmd, outcome, now) ==
  IF ~m.mqttConnected
    THEN h
    ELSE LET payload ==
               serializeMQTTMessage(convertToUnixTime(m, cmd.tq, now), cmd.id)
         IN IF outcome = "ok"
              THEN [h EXCEPT !.att = Append(@, cmd.id),
                             !.pub = Append(@, payload)]
              ELSE [h EXCEPT !.att = Append(@, cmd.id),
                             !.err = Append(@, cmd.id)]

\* for (const auto& cmd : commands) publishSingleCommand(cmd);
RECURSIVE PublishCommands(_, _, _, _, _, _)
PublishCommands(m, h, cmds, outs, now, k) ==
  IF k > Len(cmds)
    THEN h
    ELSE PublishCommands(m, publishSingleCommand(m, h, cmds[k], outs[k], now),
                         cmds, outs, now, k + 1)

\* MQTTPublisher::reset: initializeTime and initializeMQTT
MqttResetState(start, connected) ==
  [mqttConnected |-> connected,
   timeInitialized |-> start.ok,
   startUnixTime |-> start.sec,
   startMicroseconds |-> start.usec]

MqttStart ==
  /\ mq \in {MqttResetState(s, c) : s \in StartTimes, c \in BOOLEAN}
  /\ mqIn = <<>>
  /\ mqAtt = <<>>
  /\ mqPub = <<>>
  /\ mqErr = <<>>

MqttIdle ==
  /\ mq.mqttConnected
  /\ mq.timeInitialized
  /\ mq.startMicroseconds = 500000

\* MQTTPublisher::process with a token of n commands.  An empty token is
\* released at once and changes nothing.
MqttProcess ==
  /\ \E n \in 1..(MaxMqttCmds - Len(mqIn)) :
       \E tqs \in [1..n -> TPreds], outs \in [1..n -> PublishOutcomes],
          now \in NowTimes :
         LET cmds == [k \in 1..n |-> [id |-> Len(mqIn) + k, tq |-> tqs[k],
                                      out |-> IF mq.mqttConnected
                                                THEN outs[k] ELSE "none"]]
             h == PublishCommands(mq,
                                  [att |-> mqAtt, pub |-> mqPub, err |-> mqErr],
                                  cmds, outs, now, 1)
         IN /\ mqIn' = mqIn \o cmds
            /\ mqAtt' = h.att
            /\ mqPub' = h.pub
            /\ mqErr' = h.err
  /\ UNCHANGED mq
  /\ MqttOnly

\* MQTTPublisher::reset; a new stream starts, with new histories
MqttReset ==
  /\ mqIn # <<>>
  /\ \E s \in StartTimes, c \in BOOLEAN : mq' = MqttResetState(s, c)
  /\ mqIn' = <<>>
  /\ mqAtt' = <<>>
  /\ mqPub' = <<>>
  /\ mqErr' = <<>>
  /\ MqttOnly

MqttStep ==
  \/ MqttProcess
  \/ MqttReset

\* ---- Claims on the publisher

\* The command that produced a payload.
CmdOf(p) == mqIn[p.event_id]

\* C11: with the baseline 1700000000 s + 500000 us, a command with
\* tPred = 1.750000 s is published with unix_time = 1700000002 and
\* microseconds = 250000 (0.5 s + 0.75 s carries one second).
C11_BaselinePlusPrediction ==
  \A i \in 1..Len(mqPub) :
    ( /\ mq.timeInitialized
      /\ mq.startUnixTime = 1700000000
      /\ mq.startMicroseconds = 500000
      /\ CmdOf(mqPub[i]).tq = 7 * MicroPerSec ) =>
        /\ mqPub[i].unix_time = 1700000002
        /\ mqPub[i].microseconds = 250000

\* C11 witness: such a command was published.
C11_Witness ==
  \E i \in 1..Len(mqPub) :
    /\ mq.timeInitialized
    /\ mq.startUnixTime = 1700000000
    /\ mq.startMicroseconds = 500000
    /\ CmdOf(mqPub[i]).tq = 7 * MicroPerSec
    /\ mqPub[i].microseconds = 250000

\* C11 (as stated): the same command is published with
\* unix_time = 1700000001 and microseconds = 250000.
C11_AsStated ==
  \A i \in 1..Len(mqPub) :
    ( /\ mq.timeInitialized
      /\ mq.startUnixTime = 1700000000
      /\ mq.startMicroseconds = 500000
      /\ CmdOf(mqPub[i]).tq = 7 * MicroPerSec ) =>
        /\ mqPub[i].unix_time = 1700000001
        /\ mqPub[i].microseconds = 250000

\* tPred rounded to the nearest microsecond.
RoundedMicros(tq) == (tq + QuarterPerMicro \div 2) \div QuarterPerMicro

\* C12: every published payload has microseconds in 0..999999, and with an
\* initialised baseline the payload's instant is the baseline plus tPred
\* rounded to the microsecond: what exceeds 999999 is carried into unix_time.
C12_MicrosecondsInRange ==
  \A i \in 1..Len(mqPub) :
    /\ mqPub[i].microseconds \in 0..(MicroPerSec - 1)
    /\ mq.timeInitialized =>
         (mqPub[i].unix_time - mq.startUnixTime) * MicroPerSec
           + mqPub[i].microseconds
         = mq.startMicroseconds + RoundedMicros(CmdOf(mqPub[i]).tq)

\* C12 witness: a payload whose fraction rounded up to 1000000 us on top of a
\* baseline of 999999 us, and a payload with tPred on a second boundary.
C12_Witness ==
  /\ mq.timeInitialized
  /\ mq.startMicroseconds = MicroPerSec - 1
  /\ \E i \in 1..Len(mqPub) :
       CmdOf(mqPub[i]).tq = 2 * QuarterPerSec - 1
  /\ \E i \in 1..Len(mqPub) :
       /\ CmdOf(mqPub[i]).tq = QuarterPerSec
       /\ mqPub[i].unix_time = mq.startUnixTime + 1

\* Commands whose publish failed: the client threw, or was not connected.
FailedIds == {k \in 1..Len(mqIn) : mqIn[k].out # "ok"}
SeqIds(q) == {q[i] : i \in 1..Len(q)}
Occurrences(q, x) == Cardinality({i \in 1..Len(q) : q[i] = x})

\* C13 (as stated): a command whose publish fails is logged and dropped and is
\* never handed to the client again; the other commands are published in the
\* order received.
C13_FailureLoggedAndDropped ==
  /\ \A k \in FailedIds :
       /\ k \in SeqIds(mqErr)
       /\ \A i \in 1..Len(mqPub) : mqPub[i].event_id # k
       /\ Occurrences(mqAtt, k) <= 1
  /\ \A i, j \in 1..Len(mqPub) :
       i < j => mqPub[i].event_id < mqPub[j].event_id
  /\ \A k \in 1..Len(mqIn) :
       mqIn[k].out = "ok" => \E i \in 1..Len(mqPub) : mqPub[i].event_id = k

(***************************************************************************)
(* InstrumentSum: the instrument mask table                                *)
(*                                                                         *)
(* Frequencies are integers counting tenths of a hertz, mel values count   *)
(* hundredths of a mel, lobe weights count hundredths, Hann values count   *)
(* thousandths.  A normalised row is kept as its numerators and their      *)
(* common denominator.                                                     *)
(***************************************************************************)

\* 700 * (10^(m / 2595) - 1) at m = 0, 25, 50, ... mel, in tenths of a hertz.
MelStep == 25 * 100
MelKnots ==
  <<
    0, 157, 318, 482, 650, 821, 997, 1176, 1359, 1547, 1739, 1935, 2135,
    2340, 2549, 2764, 2983, 3206, 3435, 3669, 3909, 4153, 4404, 4659, 4921,
    5188, 5462, 5741, 6027, 6319, 6618, 6924, 7236, 7555, 7882, 8215, 8557,
    8906, 9262, 9627, 10000, 10382, 10771, 11170, 11578, 11994, 12420,
    12856, 13301, 13757, 14222, 14698, 15185, 15683, 16192, 16712, 17244,
    17787, 18343, 18912, 19493, 20087, 20695, 21316, 21951, 22601, 23265,
    23944, 24638, 25347, 26073, 26815, 27573, 28349, 29142, 29952, 30781,
    31629, 32495, 33381, 34287, 35213, 36160, 37128, 38118, 39130, 40164,
    41222, 42304, 43410, 44541, 45697, 46879, 48087, 49323, 50586, 51878,
    53199, 54549, 55930, 57341, 58784, 60260, 61769, 63311, 64888, 66501,
    68150, 69835, 71559, 73321, 75123, 76965, 78848, 80774, 82742, 84755,
    86814, 88918, 91069, 93269, 95518, 97818, 100169, 102573, 105031,
    107544, 110113, 112740, 115426, 118172, 120980, 123850, 126785, 129786,
    132854, 135991, 139199, 142478, 145831, 149259, 152764, 156348, 160012,
    163758, 167588, 171504, 175508, 179602, 183788, 188067, 192443, 196917,
    201491, 206167, 210949, 215837, 220836, 225946, 231172, 236514, 241976,
    247561
  >>

\* hzToMel: 2595 * log10(1 + hz / 700), by inverse interpolation.
hzToMel(hz) ==
  LET k == CHOOSE j \in 1..(Len(MelKnots) - 1) :
             MelKnots[j] <= hz /\ hz < MelKnots[j + 1]
  IN (k - 1) * MelStep
       + ((hz - MelKnots[k]) * MelStep) \div (MelKnots[k + 1] - MelKnots[k])

\* melToHz: 700 * (10^(mel / 2595) - 1), by interpolation.
melToHz(mel) ==
  LET k == mel \div MelStep + 1
  IN MelKnots[k]
       + ((mel % MelStep) * (MelKnots[k + 1] - MelKnots[k])) \div MelStep

\* centersHz[i], i = 0 .. numBands - 1
BandCenterHz(i, numBands, nyquist) ==
  LET mel0 == hzToMel(0)
      melN == hzToMel(nyquist)
  IN melToHz(mel0 + ((melN - mel0) * (2 * i + 1)) \div (2 * numBands))

\* 0.5 * (1 - cos(pi * x)) at x = 0, 0.05, ..., 1, in thousandths.
HannKnots ==
  <<
    0, 6, 24, 54, 95, 146, 206, 273, 345, 422, 500, 578, 655, 727, 794,
    854, 905, 946, 976, 994, 1000
  >>

\* 0.5f * (1.0f - std::cos(pi * x)) for x in thousandths, 0 <= x <= 1000
HannRise(x) ==
  LET k == Min(x \div 50, 19) + 1
  IN HannKnots[k] + ((x - (k - 1) * 50) * (HannKnots[k + 1] - HannKnots[k])) \div 50

\* The lobes << f1, f2, weight >> of the five instruments.
InstrumentLobes ==
  << << <<400, 750, 75>> >>,
     << <<1800, 2800, 35>>, <<3500, 6000, 10>>, <<20000, 50000, 35>>,
        <<60000, 100000, 20>> >>,
     << <<8000, 16000, 30>>, <<20000, 60000, 50>>, <<60000, 100000, 20>> >>,
     << <<30000, 60000, 25>>, <<70000, 120000, 55>>, <<120000, 160000, 20>> >>,
     << <<30000, 60000, 25>>, <<60000, 120000, 50>>, <<120000, 160000, 25>> >> >>

\* The weight w of addHannLobe's loop body for a band centre f.
LobeShape(f, f1, f2, rolloffFrac) ==
  LET span == f2 - f1
      edge == Max(0, Min((span * rolloffFrac) \div 1000, (span * 49) \div 100))
      core1 == f1 + edge
      core2 == f2 - edge
  IN IF f >= core1 /\ f <= core2 THEN 1000
     ELSE IF f >= f1 /\ f < core1
       THEN HannRise(((f - f1) * 1000) \div Max(1, edge))
     ELSE IF f > core2 /\ f <= f2
       THEN HannRise(((f2 - f) * 1000) \div Max(1, edge))
     ELSE 0

\* InstrumentSum::addHannLobe
addHannLobe(dest, bandCentersHz, f1, f2, weight, rolloffFrac) ==
  IF f2 <= f1 THEN dest
  ELSE [i \in 1..Len(dest) |->
          dest[i] + weight * LobeShape(bandCentersHz[i], f1, f2, rolloffFrac)]

\* InstrumentSum::normalize: nothing when the sum is not positive, otherwise
\* every weight divided by the sum.
normalize(v) ==
  LET s == SeqSum(v)
  IN IF s <= 0 THEN [w |-> v, den |-> 1] ELSE [w |-> v, den |-> s]

\* addInstrument: the lobes from number j on, then normalize.
RECURSIVE AddLobes(_, _, _, _, _)
AddLobes(dest, centersHz, lobes, rolloffFrac, j) ==
  IF j > Len(lobes) THEN dest
  ELSE AddLobes(addHannLobe(dest, centersHz, lobes[j][1], lobes[j][2],
                            lobes[j][3], rolloffFrac),
                centersHz, lobes, rolloffFrac, j + 1)

\* InstrumentSum::buildDefaultMasks on rows of zeros
buildDefaultMasks(numBands, nyquist, rolloffFrac) ==
  LET centersHz == [i \in 1..numBands |->
                      BandCenterHz(i - 1, numBands, nyquist)]
      zeros == [i \in 1..numBands |-> 0]
  IN [k \in 1..Len(InstrumentLobes) |->
        normalize(AddLobes(zeros, centersHz, InstrumentLobes[k],
                           rolloffFrac, 1))]

\* Sizes of the band vector on the input; main() runs MelBands with 64.
BandCounts == {1, 16, 24, 64}

\* Band energies: the same level in every band.
BandLevels == {1, 2}

\* configure(): nyquist (half the sample rate), expectedBands, lobeRolloff
MaskConfigs ==
  [nyquist : {40000, 220500}, expectedBands : {0, 64},
   lobeRolloff : {0, 150, 1000}]

\* reset()
MaskReset(cfg) ==
  [cfg |-> cfg, numBands |-> 0, weightsReady |-> FALSE, weights |-> <<>>]

NoSums == <<>>

MaskStart ==
  /\ mk \in {MaskReset(c) : c \in MaskConfigs}
  /\ mkOut = NoSums

MaskIdle ==
  /\ mk.cfg.nyquist = 220500
  /\ mk.cfg.expectedBands = 64
  /\ mk.cfg.lobeRolloff = 150

\* process() on a vector of n bands, all at the same level
MaskProcess ==
  /\ \E n \in BandCounts, level \in BandLevels :
       LET stale == mk.cfg.expectedBands > 0 /\ n # mk.cfg.expectedBands
           rebuild == stale \/ ~mk.weightsReady \/ mk.numBands # n
           weights == IF rebuild
                        THEN buildDefaultMasks(n, mk.cfg.nyquist,
                                               mk.cfg.lobeRolloff)
                        ELSE mk.weights
       IN /\ mk' = [mk EXCEPT !.numBands = n, !.weightsReady = TRUE,
                              !.weights = weights]
          /\ mkOut' = [k \in 1..Len(InstrumentLobes) |->
                         [num |-> level * SeqSum(mk'.weights[k].w),
                          den |-> mk'.weights[k].den]]
  /\ MaskOnly

\* process() with no token or an empty band vector: the output is cleared
MaskProcessEmpty ==
  /\ mkOut # NoSums
  /\ mkOut' = NoSums
  /\ UNCHANGED mk
  /\ MaskOnly

\* reset()
MaskResetCall ==
  /\ mk.weightsReady
  /\ mk' = MaskReset(mk.cfg)
  /\ mkOut' = NoSums
  /\ MaskOnly

MaskStep ==
  \/ MaskProcess
  \/ MaskProcessEmpty
  \/ MaskResetCall

\* ---- Claims on the mask table

\* C20 (as stated): whatever the band count and the sample rate, every row of
\* the mask table has only nonnegative weights and sums to 1.
C20_RowsSumToOne ==
  mk.weightsReady =>
    \A k \in 1..Len(mk.weights) :
      /\ \A b \in 1..Len(mk.weights[k].w) : mk.weights[k].w[b] >= 0
      /\ SeqSum(mk.weights[k].w) = mk.weights[k].den

\* The same for the band count and sample rate main() uses.
C20_RowsOfMainSumToOne ==
  (mk.weightsReady /\ mk.numBands = 64 /\ mk.cfg.nyquist = 220500) =>
    \A k \in 1..Len(mk.weights) :
      /\ \A b \in 1..Len(mk.weights[k].w) : mk.weights[k].w[b] >= 0
      /\ SeqSum(mk.weights[k].w) = mk.weights[k].den

(***************************************************************************)
(* Embedded device (arduino/EmbeddedDevice): the event queue shared by     *)
(* the MQTT task (core 0) and the event scheduler task (core 1).           *)
(*                                                                         *)
(* eventList is the filled part of the array: Len(eventList) is            *)
(* eventCount, or eventCount + 1 while insertEventSorted has shifted and   *)
(* not yet counted.  An event is [execute_time_us, on, event_id, uid]:     *)
(* "on" is red || green || blue, uid is a serial number for the history.   *)
(* Times are in units of LED_FLASH_DURATION_MS.  The 1 s mutex timeout is  *)
(* not reached: a critical section is a bounded copy.                      *)
(***************************************************************************)

MAX_EVENT_QUEUE_SIZE == 2   \* stands for the 50 of the device
MaxEvents == 3              \* events the broker delivers in one run
MaxNow == 3                 \* last value of micros() in one run
FlashDuration == 0 + 1      \* LED_FLASH_DURATION_MS, the unit of time

EventTimes == 1..2

\* eventCount >= MAX_EVENT_QUEUE_SIZE
QueueFullLate(count) == count > MAX_EVENT_QUEUE_SIZE
QueueFull(count) == count >= MAX_EVENT_QUEUE_SIZE

\* the first slot holding a later event, else the end (1-based)
InsertIndexAtEnd(list, count, event) == count + 1
InsertIndex(list, count, event) ==
  LET later == {i \in 1..count :
                  event.execute_time_us < list[i].execute_time_us}
  IN IF later = {} THEN count + 1
     ELSE CHOOSE i \in later : \A j \in later : i <= j

\* a slot of the global array nothing has been stored in yet
EmptySlot == [execute_time_us |-> 0, on |-> FALSE, event_id |-> 0, uid |-> 0]

\* for (i = eventCount; i > insertIndex; i--) eventList[i] = eventList[i-1]
ShiftUp(list, count, at) ==
  [i \in 1..(count + 1) |->
     IF i <= at /\ i <= count THEN list[i]
     ELSE IF i > at THEN list[i - 1]
     ELSE EmptySlot]

\* insertEventSorted with the mutex held from start to end
insertEventSorted(list, count, event) ==
  IF QueueFull(count)
    THEN [ok |-> FALSE, list |-> list, count |-> count]
    ELSE LET at == InsertIndex(list, count, event)
         IN [ok |-> TRUE,
             list |-> [ShiftUp(list, count, at) EXCEPT ![at] = event],
             count |-> count + 1]

\* removeEvent(index), index 0-based, with the mutex held from start to end
removeEvent(list, count, index) ==
  IF index >= count
    THEN [ok |-> FALSE, list |-> list, count |-> count]
    ELSE [ok |-> TRUE,
          list |-> [i \in 1..(count - 1) |->
                      IF i <= index THEN list[i] ELSE list[i + 1]],
          count |-> count - 1]

\* scheduleLEDTurnOff: the event it builds
TurnOffEvent(currentMicros, uid) ==
  [execute_time_us |-> currentMicros + FlashDuration, on |-> FALSE,
   event_id |-> 0, uid |-> uid]

MtIdle == [pc |-> "idle", event |-> EmptySlot, insertIndex |-> 0,
           sent |-> 0]

ScStart == [pc |-> "top", stage |-> 1, now |-> 0, nextEvent |-> FALSE,
            timerAlarmTime |-> 0, eventExecuted |-> FALSE, on |-> FALSE,
            obs |-> "idle"]

EvHistStart == [serial |-> 0, rejected |-> 0, log |-> <<>>]

QueueStart ==
  /\ eventList = <<>>
  /\ eventCount = 0
  /\ eventQueueMutex = "free"
  /\ mt = MtIdle
  /\ sc = ScStart
  /\ evHist = EvHistStart

\* ---- MQTT task: scheduleSingleEvent -> insertEventSorted, step by step

\* scheduleSingleEvent builds the event; insertEventSorted takes the mutex
EspOffer ==
  /\ mt.pc = "idle"
  /\ mt.sent < MaxEvents
  /\ eventQueueMutex = "free"
  /\ \E t \in EventTimes, on \in BOOLEAN :
       mt' = [mt EXCEPT !.pc = "locked", !.sent = @ + 1,
                        !.event = [execute_time_us |-> t, on |-> on,
                                   event_id |-> mt.sent + 1,
                                   uid |-> evHist.serial + 1]]
  /\ eventQueueMutex' = "mqtt"
  /\ evHist' = [evHist EXCEPT !.serial = @ + 1]
  /\ UNCHANGED <<eventList, eventCount, sc>>
  /\ QueueOnly

\* the full test, then the search for the slot and the shift
EspInsertCheck ==
  /\ mt.pc = "locked"
  /\ IF QueueFull(eventCount)
       THEN /\ mt' = [mt EXCEPT !.pc = "idle"]
            /\ eventQueueMutex' = "free"
            /\ evHist' = [evHist EXCEPT !.rejected = @ + 1]
            /\ UNCHANGED eventList
       ELSE LET at == InsertIndex(eventList, eventCount, mt.event)
            IN /\ mt' = [mt EXCEPT !.pc = "store", !.insertIndex = at]
               /\ eventList' = ShiftUp(eventList, eventCount, at)
               /\ UNCHANGED <<eventQueueMutex, evHist>>
  /\ UNCHANGED <<eventCount, sc>>
  /\ QueueOnly

\* eventList[insertIndex] = event
EspInsertStore ==
  /\ mt.pc = "store"
  /\ eventList' = [eventList EXCEPT ![mt.insertIndex] = mt.event]
  /\ mt' = [mt EXCEPT !.pc = "count"]
  /\ UNCHANGED <<eventCount, eventQueueMutex, sc, evHist>>
  /\ QueueOnly

\* eventCount++ and xSemaphoreGive
EspInsertCount ==
  /\ mt.pc = "count"
  /\ eventCount' = eventCount + 1
  /\ eventQueueMutex' = "free"
  /\ mt' = [mt EXCEPT !.pc = "idle"]
  /\ UNCHANGED <<eventList, sc, evHist>>
  /\ QueueOnly

\* ---- eventSchedulerTask, one action per statement that touches the queue

\* now = micros(); eventExecuted = false; the test of step 1
SchedTop ==
  /\ sc.pc = "top"
  /\ \E now \in {sc.now, Min(sc.now + 1, MaxNow)} :
       sc' = [sc EXCEPT !.now = now, !.eventExecuted = FALSE,
                        !.stage = 1,
                        !.pc = IF sc.nextEvent /\ now >= sc.timerAlarmTime
                                 THEN "exec" ELSE "s2"]
  /\ UNCHANGED <<eventList, eventCount, eventQueueMutex, mt, evHist>>
  /\ QueueOnly

\* executeEvent(event) up to scheduleLEDTurnOff: event points at eventList[0]
SchedExecute ==
  /\ sc.pc = "exec"
  /\ Len(eventList) > 0
  /\ LET event == eventList[1]
     IN /\ sc' = [sc EXCEPT !.eventExecuted = TRUE, !.on = event.on,
                            !.obs = mt.pc,
                            !.pc = IF event.on THEN "off" ELSE "rm"]
        /\ evHist' = [evHist EXCEPT
                        !.log = Append(@, [op |-> "exec", uid |-> event.uid])]
  /\ UNCHANGED <<eventList, eventCount, eventQueueMutex, mt>>
  /\ QueueOnly

\* scheduleLEDTurnOff(currentMicros): insertEventSorted(turnOffEvent)
SchedTurnOff ==
  /\ sc.pc = "off"
  /\ eventQueueMutex = "free"
  /\ LET r == insertEventSorted(eventList, eventCount,
                                TurnOffEvent(sc.now, evHist.serial + 1))
     IN /\ eventList' = r.list
        /\ eventCount' = r.count
        /\ evHist' = [evHist EXCEPT !.serial = @ + 1,
                        !.rejected = IF r.ok THEN @ ELSE @ + 1]
  /\ sc' = [sc EXCEPT !.pc = "rm"]
  /\ UNCHANGED <<eventQueueMutex, mt>>
  /\ QueueOnly

\* step 1: if (eventCount > 0) removeEvent(0); step 2: removeEvent(0);
\* then nextEvent = NULL, timerAlarmTime = 0
SchedRemove ==
  /\ sc.pc = "rm"
  /\ eventQueueMutex = "free"
  /\ LET r == IF sc.stage = 1 /\ ~(eventCount > 0)
                THEN [ok |-> FALSE, list |-> eventList, count |-> eventCount]
                ELSE removeEvent(eventList, eventCount, 0)
     IN /\ eventList' = r.list
        /\ eventCount' = r.count
        /\ evHist' = IF r.ok
                       THEN [evHist EXCEPT !.log =
                               Append(@, [op |-> "remove",
                                          uid |-> eventList[1].uid])]
                       ELSE evHist
  /\ sc' = [sc EXCEPT !.nextEvent = FALSE, !.timerAlarmTime = 0,
                      !.pc = IF sc.stage = 1 THEN "s2" ELSE "s3"]
  /\ UNCHANGED <<eventQueueMutex, mt>>
  /\ QueueOnly

\* peekNextEvent(): NULL if eventCount == 0, else &eventList[0]; no mutex
peekNextEvent == IF eventCount = 0 THEN 0 ELSE 1

\* step 2: the past-due test on peekNextEvent()
SchedPastDue ==
  /\ sc.pc = "s2"
  /\ LET next == IF eventCount > 0 THEN peekNextEvent ELSE 0
         due == next # 0 /\ eventList[next].execute_time_us <= sc.now
     IN sc' = [sc EXCEPT !.obs = mt.pc,
                         !.stage = IF due THEN 2 ELSE @,
                         !.pc = IF due THEN "exec" ELSE "s3"]
  /\ UNCHANGED <<eventList, eventCount, eventQueueMutex, mt, evHist>>
  /\ QueueOnly

\* configureTimerForEvent(event): nextEvent = event, timerAlarmTime = its time
configureTimerForEvent(s, time) ==
  [s EXCEPT !.nextEvent = TRUE, !.timerAlarmTime = time]

\* step 3: arm the timer for the head of the queue; vTaskDelay
SchedConfigure ==
  /\ sc.pc = "s3"
  /\ LET next == peekNextEvent
         armed == IF ~sc.eventExecuted /\ eventCount > 0 /\ next # 0
                     /\ (~sc.nextEvent
                         \/ eventList[next].execute_time_us
                              < sc.timerAlarmTime)
                    THEN configureTimerForEvent(
                           sc, eventList[next].execute_time_us)
                    ELSE sc
     IN sc' = [armed EXCEPT !.obs = mt.pc, !.pc = "top"]
  /\ UNCHANGED <<eventList, eventCount, eventQueueMutex, mt, evHist>>
  /\ QueueOnly

QueueStep ==
  \/ EspOffer
  \/ EspInsertCheck
  \/ EspInsertStore
  \/ EspInsertCount
  \/ SchedTop
  \/ SchedExecute
  \/ SchedTurnOff
  \/ SchedRemove
  \/ SchedPastDue
  \/ SchedConfigure

\* ---- Claims on the event queue

\* C21: the queue never holds more than MAX_EVENT_QUEUE_SIZE events, and an
\* insert attempted while it holds that many is rejected and leaves the
\* array and the count as they were.
C21_FullQueueRejects ==
  /\ [](eventCount <= MAX_EVENT_QUEUE_SIZE
        /\ Len(eventList) <= MAX_EVENT_QUEUE_SIZE)
  /\ [][((mt.pc = "locked" /\ mt'.pc # "locked")
         \/ (sc.pc = "off" /\ sc'.pc # "off"))
        /\ eventCount = MAX_EVENT_QUEUE_SIZE
        => /\ evHist'.rejected = evHist.rejected + 1
           /\ eventList' = eventList
           /\ eventCount' = eventCount]_vars

\* a rejection has happened and the queue is still full
C21_Witness ==
  /\ evHist.rejected > 0
  /\ eventCount = MAX_EVENT_QUEUE_SIZE

\* C22 (as stated): the scheduler task reads the array and the count only
\* when the MQTT task is not between the first and the last write of an
\* insert.
C22_NeverSeenMidModification == sc.obs \notin {"store", "count"}

\* C25 (as stated): no event is executed twice, and every removal takes out
\* the event that was executed just before it.
C25_ExecutedOnceAndRemoved ==
  LET log == evHist.log
  IN /\ \A i, j \in DOMAIN log :
          (i < j /\ log[i].op = "exec" /\ log[j].op = "exec")
            => log[i].uid # log[j].uid
     /\ \A j \in DOMAIN log :
          log[j].op = "remove"
            => j > 1 /\ log[j - 1] = [op |-> "exec", uid |-> log[j].uid]

\* C39: whenever no insert or remove is under way, the queue is sorted by
\* non-decreasing execute_time_us, so slot 0 holds the earliest event.
C39_QueueSorted ==
  eventQueueMutex = "free" =>
    /\ Len(eventList) = eventCount
    /\ \A i, j \in 1..eventCount :
         i < j => eventList[i].execute_time_us <= eventList[j].execute_time_us

\* C39 witness: two events with different times, the earlier one inserted
\* after the later one and standing before it.
C39_Witness ==
  /\ eventQueueMutex = "free"
  /\ eventCount = 2
  /\ eventList[1].execute_time_us < eventList[2].execute_time_us
  /\ eventList[1].uid > eventList[2].uid

\* C40 (as stated): whenever an event that turns on an LED has been
\* executed, a turn-off event for one flash duration later is in the queue
\* once scheduleLEDTurnOff has returned.
C40_TurnOffEnqueued ==
  [][(sc.pc = "off" /\ sc'.pc = "rm")
     => \E i \in 1..eventCount' :
          eventList'[i] = TurnOffEvent(sc.now, evHist'.serial)]_vars

(***************************************************************************)
(* Specifications                                                          *)
(***************************************************************************)

\* Every component constructed, with its default parameters.
AllStart ==
  /\ RingStart
  /\ LightStart
  /\ LogStart
  /\ StopStart
  /\ PredStart
  /\ GateStart
  /\ MqttStart
  /\ MaskStart
  /\ QueueStart

RingInit ==
  AllStart /\ LightIdle /\ LogIdle /\ PredIdle /\ GateIdle /\ MqttIdle /\ MaskIdle
RingNext == RingStep
SpecRing == RingInit /\ [][RingNext]_vars

LightInit ==
  AllStart /\ leCfg \in LeConfigs /\ LogIdle /\ PredIdle /\ GateIdle
  /\ MqttIdle /\ MaskIdle
LightNext == LightStep
SpecLight == LightInit /\ [][LightNext]_vars

LogInit == AllStart /\ LightIdle /\ PredIdle /\ GateIdle /\ MqttIdle /\ MaskIdle
LogNext == LogStep
SpecLog == LogInit /\ [][LogNext]_vars

StopInit ==
  AllStart /\ LightIdle /\ LogIdle /\ PredIdle /\ GateIdle /\ MqttIdle /\ MaskIdle
StopNext == StopStep
SpecStop == StopInit /\ [][StopNext]_vars

PredInit ==
  AllStart /\ LightIdle /\ LogIdle /\ prCfg \in PredConfigs /\ GateIdle
  /\ MqttIdle /\ MaskIdle
PredNext == PredStep
SpecPred == PredInit /\ [][PredNext]_vars

GateInit ==
  AllStart /\ LightIdle /\ LogIdle /\ PredIdle /\ gCfg \in GateConfigs
  /\ MqttIdle /\ MaskIdle
GateNext == GateStep
SpecGate == GateInit /\ [][GateNext]_vars

MqttInit ==
  AllStart /\ LightIdle /\ LogIdle /\ PredIdle /\ GateIdle /\ MaskIdle
MqttNext == MqttStep
SpecMqtt == MqttInit /\ [][MqttNext]_vars

MaskInit ==
  AllStart /\ LightIdle /\ LogIdle /\ PredIdle /\ GateIdle /\ MqttIdle
MaskNext == MaskStep
SpecMask == MaskInit /\ [][MaskNext]_vars

QueueInit ==
  AllStart /\ LightIdle /\ LogIdle /\ PredIdle /\ GateIdle /\ MqttIdle
  /\ MaskIdle
QueueNext == QueueStep
SpecQueue == QueueInit /\ [][QueueNext]_vars

====
